---- MODULE Spec2Model ----
(***************************************************************************)
(* A model of the request-to-booking pipeline of whatsapp_ai_booking:      *)
(*   src/ai_extractor.py  extract_booking_details                          *)
(*   src/booking.py       ROOM_TYPE_MAP, get_auth_token, create_booking    *)
(*   src/main.py          process_booking_request                          *)
(*   src/email_reader.py  check_new_emails                                 *)
(* Python strings are TLA+ strings (Len, SubSeq, Head, Tail and \o work on *)
(* them); None is the number 0 where the code only tests truthiness.       *)
(***************************************************************************)
EXTENDS Integers, Sequences, FiniteSets, TLC

VARIABLES
    rt_pc,          \* room-type resolution: "call" before, "done" after
    rt_in,          \* details["room_type"], the text handed to the resolver
    rt_out,         \* what lines 84-98 of booking.py produce for rt_in
    ex_pc,          \* extraction: "call", "waiting" (request in flight), "done"
    ex_resp,        \* the language-understanding service's answer
    ex_calls,       \* requests sent to the service by this invocation
    ex_out,         \* what extract_booking_details returns or raises
    cached_token,   \* booking.py's global _cached_token; 0 is None
    au_pc,          \* a get_auth_token call: "idle", "login", "returned", "raised"
    au_force,       \* its force_refresh argument
    au_before,      \* _cached_token when it was called
    au_resp,        \* the login response it received, if any
    au_ret,         \* the token it returned; 0 when it has not or it raised
    au_logins,      \* login requests it sent
    au_won,         \* some login has succeeded since the process started
    au_forced,      \* a forced call was made after the first successful login
    au_later,       \* login requests sent after the first successful login
    run,            \* per pipeline run: its position and its local variables
    server          \* the reservation system: the tokens it issued and accepts

rt_vars == <<rt_pc, rt_in, rt_out>>
ex_vars == <<ex_pc, ex_resp, ex_calls, ex_out>>
au_vars == <<au_pc, au_force, au_before, au_resp, au_ret, au_logins,
             au_won, au_forced, au_later>>

vars == <<rt_vars, ex_vars, au_vars, cached_token, run, server>>

(***************************************************************************)
(* Bounds of the model.                                                    *)
(***************************************************************************)
\* Longest generated room-type text (the named examples are longer).
MaxRoomLen == 3
\* Longest response text of the language-understanding service, in tokens.
MaxText == 5
\* Distinct bearer tokens the reservation system hands out: 1..MaxTokens.
MaxTokens == 2
\* Login requests followed after the first successful login.
MaxLater == 2
\* Pipeline runs (inbound messages being handled).
NumRuns == 2

(***************************************************************************)
(* Python string operations used by the code.                              *)
(***************************************************************************)
\* A text that str.lower() returned is the sequence of its characters.  A
\* character is a string of length one or, when it is one that cannot be
\* written in a string of this module, the name of its code point: "U+0253".
RECURSIVE Chars(_)
Chars(s) == IF Len(s) = 0 THEN <<>> ELSE <<Head(s)>> \o Chars(Tail(s))

\* The letters str.lower() changes, and under each its lower-case form
\* (Python 3.11, Unicode 14.0): every such pair of which both letters can be
\* written in a string of this module.
UpperChars ==
    "ABCDEFGHIJKLMNOPQRSTUVWXYZÀÁÂÃÄÅÆÇÈÉÊËÌÍ" \o
    "ÎÏÐÑÒÓÔÕÖØÙÚÛÜÝÞƂƄƇƋƎƑƘƠƢƤƦƧƩƬƮƯƱƲƳƵƷƸƼǄ" \o
    "ǅǇǈǊǋǍǏǑǓǕǗǙǛǞǠǢǤǦǨǪǬǮǱǲǴǶǷǸǺǼǾΆΈΉΊΌΎΏΑΒ" \o
    "ΓΔΕΖΗΘΙΚΛΜΝΞΟΠΡΣΤΥΦΧΨΩΪΫϏϘϚϜϞϠϢϤϦϨϪϬϮϴϷϹ" \o
    "ϺҀҊҌҎҐҒҔҖҘҚҜҞҠҢҤҦҨҪҬҮҰҲҴҶҸҺҼҾӀӁӃӅӇӉӋӍӐӒӔ" \o
    "ӖӘӚӜӞӠӢӤӦӨӪӬӮӰӲӴӶӸӺӼӾᎰᎱᎲᎳᎴᎵᎶᎷᎸᎹᎺᎻᎼᎽᎾᎿᏀᏁᏂ" \o
    "ᏃᏄᏅᏆᏇᏈᏉᏊᏋᏌᏍᏎᏏᏐᏑᏒᏓᏔᏕᏖᏗᏘᏙᏚᏛᏜᏝᏞᏟᏠᏡᏢᏣᏤᏥᏦᏧᏨᏩᏪ" \o
    "ᏫᏬᏭᏮᏯᏰᏱᏲᏳᏴᏵᲐᲑᲒᲓᲔᲕᲖᲗᲘᲙᲚᲛᲜᲝᲞᲟᲠᲡᲢᲣᲤᲥᲦᲧᲨᲩᲪᲫᲬ" \o
    "ᲭᲮᲯᲰᲱᲲᲳᲴᲵᲶᲷᲸᲹᲺᲽᲾᲿẀẂẄẆẈẊẌẎẐẒẔẞẠẢẤẦẨẪẬẮẰẲẴ" \o
    "ẶẸẺẼẾỀỂỄỆỈỊỌỎỐỒỔỖỘỚỜỞỠỢỤỦỨỪỬỮỰỲỴỶỸỺỼỾᾈᾉᾊ" \o
    "ᾋᾌᾍᾎᾏᾘᾙᾚᾛᾜᾝᾞᾟᾨᾩᾪᾫᾬᾭᾮᾯᾸᾹᾼῌῘῙῨῩῬῼↃⒶⒷⒸⒹⒺⒻⒼⒽ" \o
    "ⒾⒿⓀⓁⓂⓃⓄⓅⓆⓇⓈⓉⓊⓋⓌⓍⓎⓏⲀⲂⲄⲆⲈⲊⲌⲎⲐⲒⲔⲖⲘⲚⲜⲞⲠⲢⲤⲦⲨⲪ" \o
    "ⲬⲮⲰⲲⲴⲶⲸⲺⲼⲾⳀⳂⳄⳆⳈⳊⳌⳎⳐⳒⳔⳖⳘⳚⳜⳞⳠⳢⳫⳭⳲꚀꚂꚄꚆꚈꚊꚌꚎꚐ" \o
    "ꚒꚔꚖꚘꚚꞀꞂꞄꞆꞋꞐꞒꞖꞘꞚꞜꞞꞠꞢꞤꞦꞨꞰꞱꞲꞴꞶꞸꞺꞼꞾꟀꟂꟄꟅꟆꟇꟉꟐꟖ" \o
    "ꟘꟵ"

LowerChars ==
    "abcdefghijklmnopqrstuvwxyzàáâãäåæçèéêëìí" \o
    "îïðñòóôõöøùúûüýþƃƅƈƌǝƒƙơƣƥʀƨʃƭʈưʊʋƴƶʒƹƽǆ" \o
    "ǆǉǉǌǌǎǐǒǔǖǘǚǜǟǡǣǥǧǩǫǭǯǳǳǵƕƿǹǻǽǿάέήίόύώαβ" \o
    "γδεζηθικλμνξοπρστυφχψωϊϋϗϙϛϝϟϡϣϥϧϩϫϭϯθϸϲ" \o
    "ϻҁҋҍҏґғҕҗҙқҝҟҡңҥҧҩҫҭүұҳҵҷҹһҽҿӏӂӄӆӈӊӌӎӑӓӕ" \o
    "ӗәӛӝӟӡӣӥӧөӫӭӯӱӳӵӷӹӻӽӿꮀꮁꮂꮃꮄꮅꮆꮇꮈꮉꮊꮋꮌꮍꮎꮏꮐꮑꮒ" \o
    "ꮓꮔꮕꮖꮗꮘꮙꮚꮛꮜꮝꮞꮟꮠꮡꮢꮣꮤꮥꮦꮧꮨꮩꮪꮫꮬꮭꮮꮯꮰꮱꮲꮳꮴꮵꮶꮷꮸꮹꮺ" \o
    "ꮻꮼꮽꮾꮿᏸᏹᏺᏻᏼᏽაბგდევზთიკლმნოპჟრსტუფქღყშჩცძწ" \o
    "ჭხჯჰჱჲჳჴჵჶჷჸჹჺჽჾჿẁẃẅẇẉẋẍẏẑẓẕßạảấầẩẫậắằẳẵ" \o
    "ặẹẻẽếềểễệỉịọỏốồổỗộớờởỡợụủứừửữựỳỵỷỹỻỽỿᾀᾁᾂ" \o
    "ᾃᾄᾅᾆᾇᾐᾑᾒᾓᾔᾕᾖᾗᾠᾡᾢᾣᾤᾥᾦᾧᾰᾱᾳῃῐῑῠῡῥῳↄⓐⓑⓒⓓⓔⓕⓖⓗ" \o
    "ⓘⓙⓚⓛⓜⓝⓞⓟⓠⓡⓢⓣⓤⓥⓦⓧⓨⓩⲁⲃⲅⲇⲉⲋⲍⲏⲑⲓⲕⲗⲙⲛⲝⲟⲡⲣⲥⲧⲩⲫ" \o
    "ⲭⲯⲱⲳⲵⲷⲹⲻⲽⲿⳁⳃⳅⳇⳉⳋⳍⳏⳑⳓⳕⳗⳙⳛⳝⳟⳡⳣⳬⳮⳳꚁꚃꚅꚇꚉꚋꚍꚏꚑ" \o
    "ꚓꚕꚗꚙꚛꞁꞃꞅꞇꞌꞑꞓꞗꞙꞛꞝꞟꞡꞣꞥꞧꞩʞʇʝꞵꞷꞹꞻꞽꞿꟁꟃꞔʂᶎꟈꟊꟑꟗ" \o
    "ꟙꟶ"

\* The other letters str.lower() changes that can be written here: their
\* lower-case forms cannot, and are named.
FarUpperChars ==
    "ƁƆƉƊƏƐƓƔƖƗƜƝƟϽϾϿႠႡႢႣႤႥႦႧႨႩႪႫႬႭႮႯႰႱႲႳႴႵႶႷ" \o
    "ႸႹႺႻႼႽႾႿჀჁჂჃჄჅჇჍᎠᎡᎢᎣᎤᎥᎦᎧᎨᎩᎪᎫᎬᎭᎮᎯᾺΆῈΈῊΉῚΊ" \o
    "ῪΎῸΌῺΏꞍꞪꞫꞬꞭꞮꞳ"

FarLowerNames ==
    <<"U+0253", "U+0254", "U+0256", "U+0257", "U+0259", "U+025B", "U+0260",
      "U+0263", "U+0269", "U+0268", "U+026F", "U+0272", "U+0275", "U+037B",
      "U+037C", "U+037D", "U+2D00", "U+2D01", "U+2D02", "U+2D03", "U+2D04",
      "U+2D05", "U+2D06", "U+2D07", "U+2D08", "U+2D09", "U+2D0A", "U+2D0B",
      "U+2D0C", "U+2D0D", "U+2D0E", "U+2D0F", "U+2D10", "U+2D11", "U+2D12",
      "U+2D13", "U+2D14", "U+2D15", "U+2D16", "U+2D17", "U+2D18", "U+2D19",
      "U+2D1A", "U+2D1B", "U+2D1C", "U+2D1D", "U+2D1E", "U+2D1F", "U+2D20",
      "U+2D21", "U+2D22", "U+2D23", "U+2D24", "U+2D25", "U+2D27", "U+2D2D",
      "U+AB70", "U+AB71", "U+AB72", "U+AB73", "U+AB74", "U+AB75", "U+AB76",
      "U+AB77", "U+AB78", "U+AB79", "U+AB7A", "U+AB7B", "U+AB7C", "U+AB7D",
      "U+AB7E", "U+AB7F", "U+1F70", "U+1F71", "U+1F72", "U+1F73", "U+1F74",
      "U+1F75", "U+1F76", "U+1F77", "U+1F7A", "U+1F7B", "U+1F78", "U+1F79",
      "U+1F7C", "U+1F7D", "U+0265", "U+0266", "U+025C", "U+0261", "U+026C",
      "U+026A", "U+AB53">>

\* The tables as a function from a letter to its lower-case form.
LowerMap ==
    [c \in {SubSeq(UpperChars, i, i) : i \in 1..Len(UpperChars)} |->
        LET i == CHOOSE j \in 1..Len(UpperChars) : SubSeq(UpperChars, j, j) = c
        IN  SubSeq(LowerChars, i, i)]
    @@
    [c \in {SubSeq(FarUpperChars, i, i) : i \in 1..Len(FarUpperChars)} |->
        LET i == CHOOSE j \in 1..Len(FarUpperChars) :
                     SubSeq(FarUpperChars, j, j) = c
        IN  FarLowerNames[i]]

\* str.lower() on one character, apart from the rule for a final sigma.
LowerChar(c) == IF c \in DOMAIN LowerMap THEN LowerMap[c] ELSE c

\* The characters str.lower() skips when it looks for the letters around a
\* capital sigma (Unicode's Case_Ignorable), of those that can be written
\* here; the grave accent U+0060 is one more that cannot.
CaseIgnorableChars ==
    "'.:^¨­¯´·¸ʰʱʲʳʴʵʶʷʸʹʺʻʼʽʾʿˀˁ˂˃˄˅ˆˇˈˉˊˋˌˍ" \o
    "ˎˏːˑ˒˓˔˕˖˗˘˙˚˛˜˝˞˟ˠˡˢˣˤ˥˦˧˨˩˪˫ˬ˭ˮ˯˰˱˲˳˴˵" \o
    "˶˷˸˹˺˻˼˽˾˿΄΅·҃҄҅҆҇҈҉֑֖֛֢֣֤֚֒֓֔֕֗֘֙֜֝֞֟֠֡" \o
    "ְֱֲֳִֵֶַָׇֹֺֻּֽֿׁׂ֥֦֧֪ׅ֭֮֨֩֫֬֯ׄ״ۖۗۘۙۚۛۜ۝" \o
    "ۣ۟۠ۡۢۤۥۦ۪ۭۧۨ۫۬ަާިީުޫެޭޮޯް߲߫߬߭߮߯߰߱߳ߴߵߺ߽࢈࢐" \o
    "࢑࢙࢚࢛࢘࢜࢝࢞࢟ࣉ࣏࣐࣑࣒࣓࣊࣋࣌࣍࣎ࣔࣕࣖࣗࣘࣙࣚࣛࣜࣝࣞࣟ࣠࣡࣢ࣣࣦࣤࣥࣧ" \o
    "ࣰࣱࣲࣩ࣭࣮࣯ࣶࣹࣺࣨ࣪࣫࣬ࣳࣴࣵࣷࣸࣻࣼࣽࣾࣿঁ়ুূৃৄ্ৢৣ৾ઁં઼ુૂૃ" \o
    "ૄૅેૈ્ૢૣૺૻૼ૽૾૿ஂீ்ಁ಼ಿೆೌ್ೢೣඁ්ිීුූັິີຶື຺ຸູົຼ" \o
    "ໆ່້໊໋໌ໍ྄ཱྀྀྂྃ྆྇ྍྎྏྐྑྒྒྷྔྕྖྗྙྚྛྜྜྷྞྟྠྡྡྷྣྤྥྦྦྷ" \o
    "ྨྩྪྫྫྷྭྮྯྰྱྲླྴྵྶྷྸྐྵྺྻྼ࿆ႂႅႆႍႝჼ឴឵ិីឹឺុូួំ៉៊" \o
    "់៌៍៎៏័៑្៓ៗ៝ᢅᢆᢩᪧ᪵᪶᪷᪸᪹᪺᪽᪰᪱᪲᪳᪴᪻᪼᪾ᪿᫀ᫃᫄᫁᫂᫅᫆᫇᫈" \o
    "᫊᫉᫋ᫌᫍᫎᮀᮁᮢᮣᮤᮥᮨᮩ᮫ᮬᮭ᯦ᯨᯩᯭᯯᯰᯱ᳔᳕᳖᳗᳘᳙᳜᳝᳞᳟᳐᳑᳒᳚᳛᳠" \o
    "᳢᳣᳤᳥᳦᳧᳨᳭᳴᳸᳹ᶛᶜᶝᶞᶟᶠᶡᶢᶣᶤᶥᶦᶧᶨᶩᶪᶫᶬᶭᶮᶯᶰᶱᶲᶳᶴᶵᶶᶷ" \o
    "ᶸᶹᶺᶻᶼᶽᶾᶿ᷐᷎᷂᷊᷏᷀᷁᷃᷄᷅᷆᷇᷈᷉᷋᷌᷑᷒ᷓᷔᷕᷖᷗᷘᷙᷚᷛᷜᷝᷞᷟ᷍" \o
    "᷺᷹᷽᷿᷷᷸ᷠᷡᷢᷣᷤᷥᷦᷧᷨᷩᷪᷫᷬᷭᷮᷯᷰᷱᷲᷳᷴ᷵᷻᷾᷶᷼᾽᾿῀῁῍῎῏῝" \o
    "῞῟῭΅`´῾ₐₑₒₓₔₕₖₗₘₙₚₛₜ⃒⃓⃘⃙⃚⃐⃑⃔⃕⃖⃗⃛⃜⃝⃞⃟⃠⃡⃢⃣" \o
    "⃤⃥⃦⃪⃫⃨⃬⃭⃮⃯⃧⃩⃰⳯⳰⳱ⷠⷡⷢⷣⷤⷥⷦⷧⷨⷩⷪⷫⷬⷭⷮⷯⷰⷱⷲⷳⷴⷵⷶⷷ" \o
    "゙゚ⷸⷹⷺⷻⷼⷽⷾⷿ゛゜ゝゞーヽヾꓸꓹꓺꓻꓼꓽꚜꚝꚞꚟ꛰꛱ꞈ꞉꞊ꟲꟳꟴꟸꟹ꣄ꣅ꣠" \o
    "꣡꣢꣣꣤꣥꣦꣧꣨꣩꣪꣫꣬꣭꣮꣯꣰꣱ꣿꦀꦁꦂ꦳ꦶꦷꦸꦹꦼꦽꧏꧥꧦꪴꪰꪲꪳꪷꪸꪾ꪿꫁" \o
    "ꫝꫬꫭꫳꫴ꫶ꯥꯨ꯭﮲﮳﮴﮵﮶﮷﮸﮹﮺﮻﮼﮽﮾﮿﯀﯁﯂﻿ﾞﾟ￣￹￺￻"

CaseIgnorable == {SubSeq(CaseIgnorableChars, i, i) : i \in 1..Len(CaseIgnorableChars)}

\* The cased letters that are not skipped: one of them before a capital sigma
\* and none after it make the sigma a final one.
CasedChars ==
    "ABCDEFGHIJKLMNOPQRSTUVWXYZabcdefghijklmn" \o
    "opqrstuvwxyzªµºÀÁÂÃÄÅÆÇÈÉÊËÌÍÎÏÐÑÒÓÔÕÖØÙ" \o
    "ÚÛÜÝÞßàáâãäåæçèéêëìíîïðñòóôõöøùúûüýþÿƀƁƂ" \o
    "ƃƄƅƆƇƈƉƊƋƌƍƎƏƐƑƒƓƔƕƖƗƘƙƚƛƜƝƞƟƠơƢƣƤƥƦƧƨƩƪ" \o
    "ƫƬƭƮƯưƱƲƳƴƵƶƷƸƹƺƼƽƾƿǄǅǆǇǈǉǊǋǌǍǎǏǐǑǒǓǔǕǖǗ" \o
    "ǘǙǚǛǜǝǞǟǠǡǢǣǤǥǦǧǨǩǪǫǬǭǮǯǰǱǲǳǴǵǶǷǸǹǺǻǼǽǾǿ" \o
    "ʀʁʂʃʄʅʆʇʈʉʊʋʌʍʎʏʐʑʒʓʕʖʗʘʙʚʛʜʝʞʟʠʡʢʣʤʥʦʧʨ" \o
    "ʩʪʫʬʭʮʯΆΈΉΊΌΎΏΐΑΒΓΔΕΖΗΘΙΚΛΜΝΞΟΠΡΣΤΥΦΧΨΩΪ" \o
    "ΫάέήίΰαβγδεζηθικλμνξοπρςστυφχψωϊϋόύώϏϐϑϒ" \o
    "ϓϔϕϖϗϘϙϚϛϜϝϞϟϠϡϢϣϤϥϦϧϨϩϪϫϬϭϮϯϰϱϲϳϴϵϷϸϹϺϻ" \o
    "ϼϽϾϿҀҁҊҋҌҍҎҏҐґҒғҔҕҖҗҘҙҚқҜҝҞҟҠҡҢңҤҥҦҧҨҩҪҫ" \o
    "ҬҭҮүҰұҲҳҴҵҶҷҸҹҺһҼҽҾҿӀӁӂӃӄӅӆӇӈӉӊӋӌӍӎӏӐӑӒӓ" \o
    "ӔӕӖӗӘәӚӛӜӝӞӟӠӡӢӣӤӥӦӧӨөӪӫӬӭӮӯӰӱӲӳӴӵӶӷӸӹӺӻ" \o
    "ӼӽӾӿրցւփքօֆևֈႠႡႢႣႤႥႦႧႨႩႪႫႬႭႮႯႰႱႲႳႴႵႶႷႸႹႺ" \o
    "ႻႼႽႾႿჀჁჂჃჄჅჇჍაბგდევზთიკლმნოპჟრსტუფქღყშჩც" \o
    "ძწჭხჯჰჱჲჳჴჵჶჷჸჹჺჽჾჿᎠᎡᎢᎣᎤᎥᎦᎧᎨᎩᎪᎫᎬᎭᎮᎯᎰᎱᎲᎳᎴ" \o
    "ᎵᎶᎷᎸᎹᎺᎻᎼᎽᎾᎿᏀᏁᏂᏃᏄᏅᏆᏇᏈᏉᏊᏋᏌᏍᏎᏏᏐᏑᏒᏓᏔᏕᏖᏗᏘᏙᏚᏛᏜ" \o
    "ᏝᏞᏟᏠᏡᏢᏣᏤᏥᏦᏧᏨᏩᏪᏫᏬᏭᏮᏯᏰᏱᏲᏳᏴᏵᏸᏹᏺᏻᏼᏽᲀᲁᲂᲃᲄᲅᲆᲇᲈ" \o
    "ᲐᲑᲒᲓᲔᲕᲖᲗᲘᲙᲚᲛᲜᲝᲞᲟᲠᲡᲢᲣᲤᲥᲦᲧᲨᲩᲪᲫᲬᲭᲮᲯᲰᲱᲲᲳᲴᲵᲶᲷ" \o
    "ᲸᲹᲺᲽᲾᲿᶀᶁᶂᶃᶄᶅᶆᶇᶈᶉᶊᶋᶌᶍᶎᶏᶐᶑᶒᶓᶔᶕᶖᶗᶘᶙᶚẀẁẂẃẄẅẆ" \o
    "ẇẈẉẊẋẌẍẎẏẐẑẒẓẔẕẖẗẘẙẚẛẜẝẞẟẠạẢảẤấẦầẨẩẪẫẬậẮ" \o
    "ắẰằẲẳẴẵẶặẸẹẺẻẼẽẾếỀềỂểỄễỆệỈỉỊịỌọỎỏỐốỒồỔổỖ" \o
    "ỗỘộỚớỜờỞởỠỡỢợỤụỦủỨứỪừỬửỮữỰựỲỳỴỵỶỷỸỹỺỻỼỽỾ" \o
    "ỿᾀᾁᾂᾃᾄᾅᾆᾇᾈᾉᾊᾋᾌᾍᾎᾏᾐᾑᾒᾓᾔᾕᾖᾗᾘᾙᾚᾛᾜᾝᾞᾟᾠᾡᾢᾣᾤᾥᾦ" \o
    "ᾧᾨᾩᾪᾫᾬᾭᾮᾯᾰᾱᾲᾳᾴᾶᾷᾸᾹᾺΆᾼιῂῃῄῆῇῈΈῊΉῌῐῑῒΐῖῗῘῙ" \o
    "ῚΊῠῡῢΰῤῥῦῧῨῩῪΎῬῲῳῴῶῷῸΌῺΏῼↃↄⒶⒷⒸⒹⒺⒻⒼⒽⒾⒿⓀⓁⓂ" \o
    "ⓃⓄⓅⓆⓇⓈⓉⓊⓋⓌⓍⓎⓏⓐⓑⓒⓓⓔⓕⓖⓗⓘⓙⓚⓛⓜⓝⓞⓟⓠⓡⓢⓣⓤⓥⓦⓧⓨⓩⲀ" \o
    "ⲁⲂⲃⲄⲅⲆⲇⲈⲉⲊⲋⲌⲍⲎⲏⲐⲑⲒⲓⲔⲕⲖⲗⲘⲙⲚⲛⲜⲝⲞⲟⲠⲡⲢⲣⲤⲥⲦⲧⲨ" \o
    "ⲩⲪⲫⲬⲭⲮⲯⲰⲱⲲⲳⲴⲵⲶⲷⲸⲹⲺⲻⲼⲽⲾⲿⳀⳁⳂⳃⳄⳅⳆⳇⳈⳉⳊⳋⳌⳍⳎⳏⳐ" \o
    "ⳑⳒⳓⳔⳕⳖⳗⳘⳙⳚⳛⳜⳝⳞⳟⳠⳡⳢⳣⳤⳫⳬⳭⳮⳲⳳꚀꚁꚂꚃꚄꚅꚆꚇꚈꚉꚊꚋꚌꚍ" \o
    "ꚎꚏꚐꚑꚒꚓꚔꚕꚖꚗꚘꚙꚚꚛꞀꞁꞂꞃꞄꞅꞆꞇꞋꞌꞍꞎꞐꞑꞒꞓꞔꞕꞖꞗꞘꞙꞚꞛꞜꞝ" \o
    "ꞞꞟꞠꞡꞢꞣꞤꞥꞦꞧꞨꞩꞪꞫꞬꞭꞮꞯꞰꞱꞲꞳꞴꞵꞶꞷꞸꞹꞺꞻꞼꞽꞾꞿꟀꟁꟂꟃꟄꟅ" \o
    "ꟆꟇꟈꟉꟊꟐꟑꟓꟕꟖꟗꟘꟙꟵꟶꟺꮀꮁꮂꮃꮄꮅꮆꮇꮈꮉꮊꮋꮌꮍꮎꮏꮐꮑꮒꮓꮔꮕꮖꮗ" \o
    "ꮘꮙꮚꮛꮜꮝꮞꮟꮠꮡꮢꮣꮤꮥꮦꮧꮨꮩꮪꮫꮬꮭꮮꮯꮰꮱꮲꮳꮴꮵꮶꮷꮸꮹꮺꮻꮼꮽꮾꮿ"

Cased == {SubSeq(CasedChars, i, i) : i \in 1..Len(CasedChars)}

CapitalSigma == "Σ"
FinalSigma == "ς"

RECURSIVE CasedBefore(_, _)
\* Whether the nearest character before position i that is not skipped is a
\* cased letter.
CasedBefore(s, i) ==
    IF i <= 1 THEN FALSE
    ELSE IF SubSeq(s, i - 1, i - 1) \in CaseIgnorable THEN CasedBefore(s, i - 1)
    ELSE SubSeq(s, i - 1, i - 1) \in Cased

RECURSIVE CasedAfter(_, _)
\* The same for the nearest character after position i.
CasedAfter(s, i) ==
    IF i >= Len(s) THEN FALSE
    ELSE IF SubSeq(s, i + 1, i + 1) \in CaseIgnorable THEN CasedAfter(s, i + 1)
    ELSE SubSeq(s, i + 1, i + 1) \in Cased

\* The lower-case form of the character at position i of s: a capital sigma
\* that ends a word becomes the final sigma.
LowerAt(s, i) ==
    LET c == SubSeq(s, i, i)
    IN  IF c = CapitalSigma /\ CasedBefore(s, i) /\ ~CasedAfter(s, i)
        THEN FinalSigma
        ELSE LowerChar(c)

RECURSIVE LowerFrom(_, _)
LowerFrom(s, i) ==
    IF i > Len(s) THEN <<>> ELSE <<LowerAt(s, i)>> \o LowerFrom(s, i + 1)

\* str.lower(): the characters of the lower-cased text.
Lower(s) == LowerFrom(s, 1)

\* The characters str.strip() and int() remove, of those that can be written
\* in a string of this module: the ASCII ones, then U+000B, U+001C to U+001F,
\* U+0085, U+00A0 and U+1680.  Python removes U+2000 to U+200A, U+2028,
\* U+2029, U+202F, U+205F and U+3000 too; no string here can hold them.
WhiteSpace ==
    {" ", "\t", "\n", "\r", "\f",
     "", "", "", "", "", "", " ", " "}

RECURSIVE LStrip(_)
LStrip(s) == IF Len(s) > 0 /\ Head(s) \in WhiteSpace THEN LStrip(Tail(s)) ELSE s

RECURSIVE RStrip(_)
RStrip(s) ==
    IF Len(s) > 0 /\ Head(SubSeq(s, Len(s), Len(s))) \in WhiteSpace
    THEN RStrip(SubSeq(s, 1, Len(s) - 1))
    ELSE s

\* str.strip(), on the characters of a text.
Strip(s) == RStrip(LStrip(s))

\* Python's (a in b) on the characters of two texts: a occurs in b as a
\* contiguous stretch.
In(a, b) ==
    \/ Len(a) = 0
    \/ \E i \in 1..(Len(b) - Len(a) + 1) : SubSeq(b, i, i + Len(a) - 1) = a

(***************************************************************************)
(* booking.py: the room-type table and its lookup (lines 20-32, 84-98).    *)
(***************************************************************************)
\* The dict in insertion order: <<key, id>>.
ROOM_TYPE_MAP == <<
    <<"premium suite",        1>>,
    <<"deluxe room",          2>>,
    <<"deluxe",               2>>,
    <<"executive room",       3>>,
    <<"executive",            3>>,
    <<"family suite",         4>>,
    <<"family",               4>>,
    <<"deluxe sea view room", 5>>,
    <<"sea view",             5>>,
    <<"presidential suite",   6>>,
    <<"presidential",         6>> >>

\* list(ROOM_TYPE_MAP.keys())
RoomKeys == [i \in 1..Len(ROOM_TYPE_MAP) |-> ROOM_TYPE_MAP[i][1]]

\* The characters of each key.
KeyChars == [i \in 1..Len(ROOM_TYPE_MAP) |-> Chars(ROOM_TYPE_MAP[i][1])]

\* ROOM_TYPE_MAP.get(room_raw): the id, or None (0).
MapGet(room_raw) ==
    IF \E i \in 1..Len(ROOM_TYPE_MAP) : KeyChars[i] = room_raw
    THEN ROOM_TYPE_MAP[CHOOSE i \in 1..Len(ROOM_TYPE_MAP) :
                           KeyChars[i] = room_raw][2]
    ELSE 0

\* A partial match that only looks for a key inside the input.
PartialTest_KeyInInputOnly(key, room_raw) == In(key, room_raw)

\* The test of the partial-match loop, line 90.
PartialTest(key, room_raw) == In(key, room_raw) \/ In(room_raw, key)

RECURSIVE PartialFrom(_, _)
\* The loop of lines 89-92 from item i on: the first hit's id, and break.
PartialFrom(i, room_raw) ==
    IF i > Len(ROOM_TYPE_MAP) THEN 0
    ELSE IF PartialTest(KeyChars[i], room_raw) THEN ROOM_TYPE_MAP[i][2]
    ELSE PartialFrom(i + 1, room_raw)

\* A lookup without the raise of lines 94-98: an unmatched text gets no id.
ResolveRoomType_NoRaise(room_type) ==
    LET room_raw == Strip(Lower(room_type))
        exact    == MapGet(room_raw)
    IN  [ok |-> TRUE, id |-> IF exact = 0 THEN PartialFrom(1, room_raw) ELSE exact,
         text |-> room_type, valid |-> <<>>]

\* Lines 84-98 for a room_type that is a string: the id, or the exception
\* "Unknown room type ... Valid options: [keys]".
ResolveRoomType(room_type) ==
    LET room_raw == Strip(Lower(room_type))
        exact    == MapGet(room_raw)
        room_type_id == IF exact = 0 THEN PartialFrom(1, room_raw) ELSE exact
    IN  IF room_type_id = 0
        THEN [ok |-> FALSE, id |-> 0, text |-> room_type, valid |-> RoomKeys]
        ELSE [ok |-> TRUE, id |-> room_type_id, text |-> room_type, valid |-> <<>>]

(***************************************************************************)
(* Python values of the extracted record.  A value is absent (the key is   *)
(* not in the dict), None, a str or an int; every value has the same three *)
(* fields so that any two can be compared.                                 *)
(***************************************************************************)
Absent == [t |-> "absent", s |-> "", n |-> 0]
Null   == [t |-> "null",   s |-> "", n |-> 0]
StrV(x) == [t |-> "str",    s |-> x,  n |-> 0]
IntV(x) == [t |-> "int",    s |-> "", n |-> x]

\* A truth test that takes every number, zero included, for true.
Truthy_ZeroIsTrue(v) == (v.t = "str" /\ v.s # "") \/ v.t = "int"

\* bool(v) for a value that dict.get returned (an absent key gives None).
Truthy(v) == (v.t = "str" /\ v.s # "") \/ (v.t = "int" /\ v.n # 0)

FieldNames == {"guest_name", "email", "phone", "check_in", "check_out",
               "room_type", "adults", "children", "special_requests"}

\* The dict json.loads builds when the object names no field at all.
EmptyData == [f \in FieldNames |-> Absent]

(***************************************************************************)
(* ai_extractor.py: extract_booking_details (lines 51-86).                 *)
(* The response text is a sequence of tokens: "fence" is a Markdown fence  *)
(* (three backticks, with or without json), "{" and "}" are braces, "kv"   *)
(* is one member (a key, a colon and a value), "," a comma and "x" any     *)
(* other text.  The response carries the dict its members denote as data.  *)
(***************************************************************************)
HTTP_OK == 200

RECURSIVE StripFences(_)
\* re.sub of line 77: every fence is removed, wherever it stands.
StripFences(raw) ==
    IF raw = <<>> THEN <<>>
    ELSE IF Head(raw) = "fence" THEN StripFences(Tail(raw))
    ELSE <<Head(raw)>> \o StripFences(Tail(raw))

RECURSIVE FirstIndex(_, _, _)
\* The first position from i on that holds tok, or 0.
FirstIndex(raw, tok, i) ==
    IF i > Len(raw) THEN 0
    ELSE IF raw[i] = tok THEN i
    ELSE FirstIndex(raw, tok, i + 1)

RECURSIVE LastIndex(_, _, _)
\* The last position up to i that holds tok, or 0.
LastIndex(raw, tok, i) ==
    IF i < 1 THEN 0
    ELSE IF raw[i] = tok THEN i
    ELSE LastIndex(raw, tok, i - 1)

\* A non-greedy search: from the first "{" to the first "}" after it.
SearchObject_NonGreedy(raw) ==
    LET open  == FirstIndex(raw, "{", 1)
        close == IF open = 0 THEN 0 ELSE FirstIndex(raw, "}", open)
    IN  IF open # 0 /\ close > open THEN SubSeq(raw, open, close) ELSE <<>>

\* re.search of line 80 (brace, anything, brace; DOTALL): greedy, from the
\* first "{" to the last "}" after it; <<>> is no match.
SearchObject(raw) ==
    LET open  == FirstIndex(raw, "{", 1)
        close == LastIndex(raw, "}", Len(raw))
    IN  IF open # 0 /\ close > open THEN SubSeq(raw, open, close) ELSE <<>>

RECURSIVE JsonMembers(_, _, _)
\* json.loads after the opening brace: state is what the parser expects.
JsonMembers(span, i, state) ==
    IF i > Len(span) THEN FALSE
    ELSE IF state = "member_or_end"
    THEN IF span[i] = "}" THEN i = Len(span)
         ELSE span[i] = "kv" /\ JsonMembers(span, i + 1, "comma_or_end")
    ELSE IF state = "comma_or_end"
    THEN IF span[i] = "}" THEN i = Len(span)
         ELSE span[i] = "," /\ JsonMembers(span, i + 1, "member")
    ELSE span[i] = "kv" /\ JsonMembers(span, i + 1, "comma_or_end")

\* Whether json.loads(span) returns (TRUE) or raises JSONDecodeError.
JsonLoads(span) ==
    /\ Len(span) >= 2
    /\ span[1] = "{"
    /\ JsonMembers(span, 2, "member_or_end")

ExError(kind) == [ok |-> FALSE, err |-> kind, data |-> EmptyData]

\* What line 73 finds in the body of a response: the text, or a body of
\* another shape.  "none" is no body at all (there is no response).
NoTextShapes ==
    {"missing_key", "empty_list", "not_json", "not_object", "text_not_str"}

\* The body holds candidates[0].content.parts[0].text, a str.
HasText(response) == response.shape = "text"

\* The exception of line 73 on a body without the text: a dict or candidate
\* that lacks the key, an empty candidates or parts list, a body that is not
\* JSON, JSON that is a list or a scalar, a text that is null or a number.
TextError(shape) ==
    CASE shape = "missing_key"  -> "KeyError"
      [] shape = "empty_list"   -> "IndexError"
      [] shape = "not_json"     -> "JSONDecodeError"
      [] shape = "not_object"   -> "TypeError"
      [] shape = "text_not_str" -> "AttributeError"

\* Lines 70-86 on the response to the one request of line 63.  status 0 is
\* no response (requests.post raises); shape is what the body holds.
extract_booking_details(response) ==
    IF response.status = 0 THEN ExError("RequestException")
    ELSE IF response.status # HTTP_OK THEN ExError("Gemini API error")
    ELSE IF ~HasText(response) THEN ExError(TextError(response.shape))
    ELSE LET raw   == StripFences(response.text)
             match == SearchObject(raw)
         IN  IF match = <<>> THEN ExError("No JSON found")
             ELSE IF ~JsonLoads(match) THEN ExError("JSONDecodeError")
             ELSE [ok |-> TRUE, err |-> "", data |-> response.data]

(***************************************************************************)
(* booking.py: get_auth_token (lines 35-73).                               *)
(* A token is a number 1..MaxTokens; 0 is None or an empty value.  A login *)
(* response has a status (0: httpx.post raised, there is no response),     *)
(* parses (response.json() returns), is_json (what it returns is a dict)   *)
(* and the body's four fields.                                             *)
(***************************************************************************)
LOGIN_OK == 200

\* The test of line 42 with the flag inverted.
FastPath_Inverted(cache, force_refresh) == cache # 0 /\ force_refresh

\* The early return of lines 42-43.
FastPath(cache, force_refresh) == cache # 0 /\ ~force_refresh

\* The four fields read in another order.
TokenOf_AccessTokenFirst(data) ==
    IF data.access_token # 0 THEN data.access_token
    ELSE IF data.token # 0 THEN data.token
    ELSE IF data.jwt # 0 THEN data.jwt
    ELSE data.authToken

\* Lines 61-66: the first truthy one of the four fields, or 0.
TokenOf(data) ==
    IF data.token # 0 THEN data.token
    ELSE IF data.access_token # 0 THEN data.access_token
    ELSE IF data.jwt # 0 THEN data.jwt
    ELSE data.authToken

\* The exception of lines 61-62 on a body that is no dict: response.json()
\* raises, or it returns a list or a scalar and data.get raises.
JsonError(response) ==
    IF response.parses THEN "AttributeError" ELSE "JSONDecodeError"

\* The login of lines 57-73 without the check of lines 68-69.
LoginOutcome_NoTokenCheck(response) ==
    IF response.status = 0 THEN [ok |-> FALSE, token |-> 0, err |-> "RequestError"]
    ELSE IF response.status # LOGIN_OK
    THEN [ok |-> FALSE, token |-> 0, err |-> "Login failed"]
    ELSE IF ~response.is_json
    THEN [ok |-> FALSE, token |-> 0, err |-> JsonError(response)]
    ELSE [ok |-> TRUE, token |-> TokenOf(response.body), err |-> ""]

\* Lines 57-73 on the login response: the token to cache and return, or the
\* exception raised.
LoginOutcome(response) ==
    IF response.status = 0 THEN [ok |-> FALSE, token |-> 0, err |-> "RequestError"]
    ELSE IF response.status # LOGIN_OK
    THEN [ok |-> FALSE, token |-> 0, err |-> "Login failed"]
    ELSE IF ~response.is_json
    THEN [ok |-> FALSE, token |-> 0, err |-> JsonError(response)]
    ELSE IF TokenOf(response.body) = 0
    THEN [ok |-> FALSE, token |-> 0, err |-> "No token found"]
    ELSE [ok |-> TRUE, token |-> TokenOf(response.body), err |-> ""]

(***************************************************************************)
(* Python conversions used by create_booking and by the replies.           *)
(***************************************************************************)
DigitChars == "0123456789"

\* The decimal digits int() reads (Unicode category Nd), of those that can be
\* written in a string of this module, in blocks of ten from the digit zero
\* to the digit nine of one script: ASCII, Extended Arabic-Indic, NKo,
\* Bengali, Gujarati, Tamil, Kannada, Sinhala Lith, Lao, Myanmar Shan, Khmer,
\* New Tai Lue, Tai Tham Hora, Tai Tham Tham, Sundanese, Saurashtra,
\* Javanese, Myanmar Tai Laing and Meetei Mayek.  The digits of the other
\* scripts (Arabic-Indic U+0660, Devanagari U+0966, ...) cannot be written.
DecimalDigits ==
    "0123456789۰۱۲۳۴۵۶۷۸۹߀߁߂߃߄߅߆߇߈߉০১২৩৪৫৬৭৮৯" \o
    "૦૧૨૩૪૫૬૭૮૯௦௧௨௩௪௫௬௭௮௯೦೧೨೩೪೫೬೭೮೯෦෧෨෩෪෫෬෭෮෯" \o
    "໐໑໒໓໔໕໖໗໘໙႐႑႒႓႔႕႖႗႘႙០១២៣៤៥៦៧៨៩᧐᧑᧒᧓᧔᧕᧖᧗᧘᧙" \o
    "᪀᪁᪂᪃᪄᪅᪆᪇᪈᪉᪐᪑᪒᪓᪔᪕᪖᪗᪘᪙᮰᮱᮲᮳᮴᮵᮶᮷᮸᮹꣐꣑꣒꣓꣔꣕꣖꣗꣘꣙" \o
    "꧐꧑꧒꧓꧔꧕꧖꧗꧘꧙꧰꧱꧲꧳꧴꧵꧶꧷꧸꧹꯰꯱꯲꯳꯴꯵꯶꯷꯸꯹"

DigitIndex ==
    [c \in {SubSeq(DecimalDigits, i, i) : i \in 1..Len(DecimalDigits)} |->
        CHOOSE j \in 1..Len(DecimalDigits) : SubSeq(DecimalDigits, j, j) = c]

IsDigit(c) == c \in DOMAIN DigitIndex

DigitValue(c) == (DigitIndex[c] - 1) % 10

RECURSIVE DigitGroups(_)
\* The digits of an int() literal: a digit, then digits each of which may
\* have one underscore before it.
DigitGroups(s) ==
    /\ s # "" /\ IsDigit(Head(s))
    /\ \/ Tail(s) = ""
       \/ DigitGroups(Tail(s))
       \/ Head(Tail(s)) = "_" /\ DigitGroups(Tail(Tail(s)))

RECURSIVE DigitsValue(_, _)
\* The number a digit string denotes, acc being the value read so far.
DigitsValue(s, acc) ==
    IF s = "" THEN acc
    ELSE IF Head(s) = "_" THEN DigitsValue(Tail(s), acc)
    ELSE DigitsValue(Tail(s), 10 * acc + DigitValue(Head(s)))

\* The whitespace int() allows around a number: what str.strip() removes
\* apart from U+001C to U+001F, which int() takes for part of the number and
\* rejects.
IntWhiteSpace == WhiteSpace \ {"", "", "", ""}

RECURSIVE IntLStrip(_)
IntLStrip(s) == IF s # "" /\ Head(s) \in IntWhiteSpace THEN IntLStrip(Tail(s)) ELSE s

RECURSIVE IntRStrip(_)
IntRStrip(s) ==
    IF s # "" /\ SubSeq(s, Len(s), Len(s)) \in IntWhiteSpace
    THEN IntRStrip(SubSeq(s, 1, Len(s) - 1))
    ELSE s

\* int(s) for a str: surrounding whitespace and one sign are allowed, then
\* digits with single underscores between them; anything else raises
\* ValueError.
ParseInt(s) ==
    LET t      == IntRStrip(IntLStrip(s))
        signed == t # "" /\ Head(t) \in {"+", "-"}
        digits == IF signed THEN Tail(t) ELSE t
    IN  IF ~DigitGroups(digits) THEN [ok |-> FALSE, n |-> 0]
        ELSE [ok |-> TRUE,
              n |-> IF signed /\ Head(t) = "-" THEN 0 - DigitsValue(digits, 0)
                    ELSE DigitsValue(digits, 0)]

\* int(details.get(field, default)) of lines 107-108: an absent key gives the
\* default, None raises TypeError, a str is parsed.
ToInt(v, default) ==
    IF v.t = "absent" THEN [ok |-> TRUE, n |-> default]
    ELSE IF v.t = "int" THEN [ok |-> TRUE, n |-> v.n]
    ELSE IF v.t = "str" THEN ParseInt(v.s)
    ELSE [ok |-> FALSE, n |-> 0]

\* The exception int() raises on a value it cannot convert: TypeError on
\* None, ValueError on a str that is no number.
IntError(v) == IF v.t = "null" THEN "TypeError" ELSE "ValueError"

RECURSIVE NatToStr(_)
NatToStr(n) ==
    IF n < 10 THEN SubSeq(DigitChars, n + 1, n + 1)
    ELSE NatToStr(n \div 10) \o SubSeq(DigitChars, (n % 10) + 1, (n % 10) + 1)

\* str(v), as an f-string formats a value.
PyStr(v) ==
    IF v.t = "str" THEN v.s
    ELSE IF v.t = "int" THEN (IF v.n < 0 THEN "-" \o NatToStr(0 - v.n) ELSE NatToStr(v.n))
    ELSE "None"

\* details.get(field, default) for a default that is a value.
Get(details, field, default) ==
    IF details[field].t = "absent" THEN default ELSE details[field]

(***************************************************************************)
(* booking.py: create_booking (lines 76-140), between its network calls.   *)
(***************************************************************************)
HTTP_UNAUTHORIZED == 401

\* A success test that only takes server errors for failures.
BookingSuccess_NotServerError(status) == status < 500

\* A success test that accepts the whole 2xx range.
BookingSuccess_Any2xx(status) == status \in 200..299

\* Lines 126 and 137: the statuses create_booking takes for success.
BookingSuccess(status) == status \in {200, 201}

NoPayload ==
    [user_name |-> Absent, email |-> Absent, room_type_id |-> 0,
     check_in_date |-> Absent, check_out_date |-> Absent,
     adults |-> 0, children |-> 0, children_ages |-> <<>>]

\* Lines 84-110: resolve the room type and build the payload, or raise.
BuildPayload(details) ==
    LET room == Get(details, "room_type", StrV(""))
    IN  IF room.t # "str"
        THEN [ok |-> FALSE, err |-> "AttributeError", payload |-> NoPayload]
        ELSE IF ~ResolveRoomType(room.s).ok
        THEN [ok |-> FALSE, err |-> "Unknown room type", payload |-> NoPayload]
        ELSE IF ~ToInt(details["adults"], 1).ok
        THEN [ok |-> FALSE, err |-> IntError(details["adults"]), payload |-> NoPayload]
        ELSE IF ~ToInt(details["children"], 0).ok
        THEN [ok |-> FALSE, err |-> IntError(details["children"]), payload |-> NoPayload]
        ELSE [ok |-> TRUE, err |-> "",
              payload |->
                [user_name      |-> Get(details, "guest_name", StrV("")),
                 email          |-> Get(details, "email", StrV("")),
                 room_type_id   |-> ResolveRoomType(room.s).id,
                 check_in_date  |-> Get(details, "check_in", StrV("")),
                 check_out_date |-> Get(details, "check_out", StrV("")),
                 adults         |-> ToInt(details["adults"], 1).n,
                 children       |-> ToInt(details["children"], 0).n,
                 children_ages  |-> <<>>]]

\* A test for 403 where the reservation system answers 401.
NeedsRefresh_Forbidden(status) == status = 403

\* A retry after any client error, not only after 401.
NeedsRefresh_AnyClientError(status) == status \in 400..499

\* Line 128: the status that triggers the forced refresh and the retry.
NeedsRefresh(status) == status = HTTP_UNAUTHORIZED

\* The request of lines 114-122 and 131-136.
Submission(token, payload) == [token |-> token, payload |-> payload]

(***************************************************************************)
(* main.py: process_booking_request (lines 97-155).                        *)
(***************************************************************************)
\* The dict `required` of lines 112-119, in insertion order.
REQUIRED == <<
    <<"guest_name", "your full name">>,
    <<"email",      "your email address">>,
    <<"check_in",   "check-in date">>,
    <<"check_out",  "check-out date">>,
    <<"room_type",  "room type">>,
    <<"adults",     "number of adults">> >>

\* A completeness check that also looks the room type up in the table.
IsMissing_ChecksRoom(details, field) ==
    \/ ~Truthy(details[field])
    \/ /\ field = "room_type" /\ details[field].t = "str"
       /\ ~ResolveRoomType(details[field].s).ok

\* A test for None only, which lets an empty string through.
IsMissing_NoneOnly(details, field) == details[field].t \in {"absent", "null"}

\* Line 120's test for one field: not details.get(field).
IsMissing(details, field) == ~Truthy(details[field])

RECURSIVE MissingFrom(_, _)
\* Line 120: the labels of the missing fields, from item i of `required` on.
MissingFrom(i, details) ==
    IF i > Len(REQUIRED) THEN <<>>
    ELSE IF IsMissing(details, REQUIRED[i][1])
    THEN <<REQUIRED[i][2]>> \o MissingFrom(i + 1, details)
    ELSE MissingFrom(i + 1, details)

\* The replies: their kind and the values the text is built from.
NoReply == [kind |-> "", items |-> <<>>]

\* The except clause of line 101 raising again instead of returning.
ExtractionFailedReply_Reraise == [kind |-> "Raised", items |-> <<>>]

\* Lines 103-110.
ExtractionFailedReply == [kind |-> "ExtractionFailed", items |-> <<>>]

\* Lines 123-128: one line per missing label.
IncompleteReply(missing) == [kind |-> "Incomplete", items |-> missing]

\* A summary without the line for the children.
ConfirmedReply_OmitsChildren(details) ==
    [kind |-> "Confirmed",
     items |-> <<PyStr(details["guest_name"]), PyStr(details["room_type"]),
                 PyStr(details["check_in"]), PyStr(details["check_out"]),
                 PyStr(details["adults"]), PyStr(details["email"])>>]

\* Lines 133-146.
ConfirmedReply(details) ==
    [kind |-> "Confirmed",
     items |-> <<PyStr(details["guest_name"]), PyStr(details["room_type"]),
                 PyStr(details["check_in"]), PyStr(details["check_out"]),
                 PyStr(details["adults"]),
                 PyStr(Get(details, "children", IntV(0))),
                 PyStr(details["email"])>>]

\* Lines 149-155.
SubmissionFailedReply(details) ==
    [kind |-> "SubmissionFailed",
     items |-> <<PyStr(Get(details, "guest_name", StrV("there")))>>]

(***************************************************************************)
(* Inputs of the resolver.                                                 *)
(***************************************************************************)
RoomAlphabet == {"x", "V", "w", "z", " "}

RECURSIVE StringsUpTo(_, _)
StringsUpTo(alphabet, n) ==
    IF n = 0 THEN {""}
    ELSE LET S == StringsUpTo(alphabet, n - 1)
         IN  S \cup {s \o c : s \in S, c \in alphabet}

RoomExamples == {
    "Premium Suite", "Deluxe Room", "Executive Room", "Family Suite",
    "Deluxe Sea View Room", "Presidential Suite",
    "premium suite", "DELUXE ROOM", "executive room", "FAMILY SUITE",
    "deluxe sea view room", "PRESIDENTIAL SUITE", "dElUxE rOoM",
    "deluxe", "Executive", "family", "sea view", "Sea View", "presidential",
    "  Deluxe Room  ", "\tSea View\n", "Standard", "Ocean View", "Suite",
    "Room", "Deluxe Sea View", "Sea View Suite", "Family Room",
    "Executive Deluxe", "Penthouse", "a", "suite with sea view",
    "Deluxe Sea View Room\r", "\fFamily", "\r", "\f", " \r\n",
    "Deluxe Sea View Room ", "", "Family ", "Suite",
    "DÉLUXE ROOM", "Éxecutive", "ΟΔΟΣ", "ΣΕΑ view",
    "Ɓ Deluxe", "1ƁAR1", "ᎠᎡ"}

RoomTexts == RoomExamples \cup StringsUpTo(RoomAlphabet, MaxRoomLen)

(***************************************************************************)
(* SpecResolve: the resolver applied to every input text.                  *)
(***************************************************************************)
NoResolution == [ok |-> FALSE, id |-> 0, text |-> "", valid |-> <<>>]

RtIdle == rt_pc = "off" /\ rt_in = "" /\ rt_out = NoResolution

NoExtraction == [ok |-> FALSE, err |-> "", data |-> EmptyData]
NoResponse == [status |-> 0, shape |-> "none", text |-> <<>>, data |-> EmptyData]

ExIdle == ex_pc = "off" /\ ex_resp = NoResponse /\ ex_calls = 0 /\ ex_out = NoExtraction

Runs == 1..NumRuns

\* A run that has not started: no locals yet.
IdleRun ==
    [pc |-> "idle", details |-> EmptyData, token |-> 0, payload |-> NoPayload,
     sent |-> <<>>, answers |-> <<>>, logins |-> 0, refreshes |-> 0,
     reply |-> NoReply, mail |-> FALSE]

PlIdle == run = [p \in Runs |-> IdleRun]

NoBody == [token |-> 0, access_token |-> 0, jwt |-> 0, authToken |-> 0]
NoLogin == [status |-> 0, is_json |-> FALSE, parses |-> FALSE, body |-> NoBody]

\* The reservation system as the pipeline sees it: the tokens it accepts,
\* the tokens its logins have returned, whether it has invalidated the
\* tokens issued so far, and the runs it refused a login.
NoServer == [valid |-> {}, issued |-> {}, invalidated |-> FALSE, denied |-> {}]

SvIdle == server = NoServer

AuIdle ==
    /\ au_pc = "off" /\ au_force = FALSE /\ au_before = 0 /\ au_resp = NoLogin
    /\ au_ret = 0 /\ au_logins = 0 /\ au_won = FALSE /\ au_forced = FALSE
    /\ au_later = 0

InitResolve ==
    /\ rt_pc = "call"
    /\ rt_in \in RoomTexts
    /\ rt_out = NoResolution
    /\ ExIdle /\ AuIdle /\ PlIdle /\ SvIdle /\ cached_token = 0

Resolve ==
    /\ rt_pc = "call"
    /\ rt_out' = ResolveRoomType(rt_in)
    /\ rt_pc' = "done"
    /\ UNCHANGED <<rt_in, ex_vars, au_vars, cached_token, run, server>>

NextResolve == Resolve

SpecResolve == InitResolve /\ [][NextResolve]_vars

(***************************************************************************)
(* SpecExtract: one invocation of extract_booking_details on every answer  *)
(* of the language-understanding service.                                  *)
(***************************************************************************)
ExTokens == {"fence", "{", "}", "kv", ",", "x"}

RECURSIVE TextsUpTo(_)
TextsUpTo(n) ==
    IF n = 0 THEN {<<>>}
    ELSE LET S == TextsUpTo(n - 1)
         IN  S \cup {Append(t, tok) : t \in S, tok \in ExTokens}

ExStatuses == {0, 200, 201, 429, 500}

ExResponses ==
    {NoResponse}
    \cup {[status |-> st, shape |-> sh, text |-> <<>>, data |-> EmptyData] :
        st \in ExStatuses \ {0}, sh \in NoTextShapes}
    \cup {[status |-> HTTP_OK, shape |-> "text", text |-> t, data |-> EmptyData] :
        t \in TextsUpTo(MaxText)}
    \cup {[status |-> st, shape |-> "text", text |-> <<"{", "kv", "}">>,
           data |-> EmptyData] : st \in ExStatuses}

InitExtract ==
    /\ ex_pc = "call"
    /\ ex_resp \in ExResponses
    /\ ex_calls = 0
    /\ ex_out = NoExtraction
    /\ RtIdle /\ AuIdle /\ PlIdle /\ SvIdle /\ cached_token = 0

\* Lines 53-68: build the prompt and send the one request.
ExtractSend ==
    /\ ex_pc = "call"
    /\ ex_calls' = ex_calls + 1
    /\ ex_pc' = "waiting"
    /\ UNCHANGED <<ex_resp, ex_out, rt_vars, au_vars, cached_token, run, server>>

\* Lines 70-86: the response arrives; return the record or raise.
ExtractReturn ==
    /\ ex_pc = "waiting"
    /\ ex_out' = extract_booking_details(ex_resp)
    /\ ex_pc' = "done"
    /\ UNCHANGED <<ex_resp, ex_calls, rt_vars, au_vars, cached_token, run,
                   server>>

NextExtract == ExtractSend \/ ExtractReturn

SpecExtract == InitExtract /\ [][NextExtract]_vars

(***************************************************************************)
(* SpecAuth: get_auth_token called again and again, one call at a time,    *)
(* with either argument and every answer of the login endpoint.            *)
(***************************************************************************)
Tokens == 1..MaxTokens

LoginStatuses == {0, 200, 201, 401, 500}

LoginBodies ==
    [token : 0..MaxTokens, access_token : 0..MaxTokens,
     jwt : 0..MaxTokens, authToken : 0..MaxTokens]

LoginResponses ==
    {[status |-> st, is_json |-> k[1], parses |-> k[2], body |-> NoBody] :
        st \in LoginStatuses,
        k \in {<<FALSE, FALSE>>, <<FALSE, TRUE>>, <<TRUE, TRUE>>}}
    \cup {[status |-> LOGIN_OK, is_json |-> TRUE, parses |-> TRUE, body |-> b] :
        b \in LoginBodies}
    \cup {[status |-> 500, is_json |-> TRUE, parses |-> TRUE, body |-> b] :
        b \in {c \in LoginBodies : c.access_token = 0 /\ c.jwt = 0 /\ c.authToken = 0}}

InitAuth ==
    /\ cached_token = 0
    /\ au_pc = "idle"
    /\ au_force = FALSE /\ au_before = 0 /\ au_resp = NoLogin
    /\ au_ret = 0 /\ au_logins = 0
    /\ au_won = FALSE /\ au_forced = FALSE /\ au_later = 0
    /\ RtIdle /\ ExIdle /\ PlIdle /\ SvIdle

\* Lines 38-55: the call; either the early return or the login request.
AuthCall(force_refresh) ==
    /\ au_pc \in {"idle", "returned", "raised"}
    /\ au_later < MaxLater
    /\ au_force' = force_refresh
    /\ au_before' = cached_token
    /\ au_resp' = NoLogin
    /\ au_forced' = (au_forced \/ (au_won /\ force_refresh))
    /\ IF FastPath(cached_token, force_refresh)
       THEN /\ au_pc' = "returned"
            /\ au_ret' = cached_token
            /\ au_logins' = 0
            /\ au_later' = au_later
       ELSE /\ au_pc' = "login"
            /\ au_ret' = 0
            /\ au_logins' = 1
            /\ au_later' = IF au_won THEN au_later + 1 ELSE au_later
    /\ UNCHANGED <<cached_token, au_won, rt_vars, ex_vars, run, server>>

\* A login whose failure empties the cache before it raises.
AuthLoginReturn_ClearsOnFailure ==
    /\ au_pc = "login"
    /\ \E response \in LoginResponses :
           /\ au_resp' = response
           /\ LET out == LoginOutcome(response)
              IN  IF out.ok
                  THEN /\ cached_token' = out.token
                       /\ au_ret' = out.token
                       /\ au_pc' = "returned"
                       /\ au_won' = TRUE
                  ELSE /\ au_pc' = "raised"
                       /\ cached_token' = 0
                       /\ UNCHANGED <<au_ret, au_won>>
    /\ UNCHANGED <<au_force, au_before, au_logins, au_forced, au_later,
                   rt_vars, ex_vars, run, server>>

\* Lines 57-73: the login response arrives.
AuthLoginReturn ==
    /\ au_pc = "login"
    /\ \E response \in LoginResponses :
           /\ au_resp' = response
           /\ LET out == LoginOutcome(response)
              IN  IF out.ok
                  THEN /\ cached_token' = out.token
                       /\ au_ret' = out.token
                       /\ au_pc' = "returned"
                       /\ au_won' = TRUE
                  ELSE /\ au_pc' = "raised"
                       /\ UNCHANGED <<cached_token, au_ret, au_won>>
    /\ UNCHANGED <<au_force, au_before, au_logins, au_forced, au_later,
                   rt_vars, ex_vars, run, server>>

NextAuth ==
    \/ \E force_refresh \in BOOLEAN : AuthCall(force_refresh)
    \/ AuthLoginReturn

SpecAuth == InitAuth /\ [][NextAuth]_vars

(***************************************************************************)
(* Spec: pipeline runs of process_booking_request, each in its own request *)
(* thread and interleaved in any order over the shared token cache, with   *)
(* every answer of the three services.                                     *)
(***************************************************************************)
\* A record with every field the pipeline reads.
BaseData ==
    [f \in FieldNames |->
        CASE f = "guest_name" -> StrV("John Silva")
          [] f = "email"      -> StrV("john@gmail.com")
          [] f = "check_in"   -> StrV("2026-03-10")
          [] f = "check_out"  -> StrV("2026-03-15")
          [] f = "room_type"  -> StrV("Deluxe Room")
          [] f = "adults"     -> IntV(2)
          [] f = "children"   -> IntV(0)
          [] OTHER            -> StrV("")]

RequiredFields == {REQUIRED[i][1] : i \in 1..Len(REQUIRED)}

\* The ways a field can be missing from the JSON object: the key is not
\* there, its value is null, or it is the empty value of its type.
MissingKinds == {"absent", "null", "empty"}

MissingValue(kind, field) ==
    IF kind = "absent" THEN Absent
    ELSE IF kind = "null" THEN Null
    ELSE IF field = "adults" THEN IntV(0) ELSE StrV("")

\* BaseData with every subset of the required fields missing.
OmissionData ==
    {[f \in FieldNames |-> IF f \in S THEN MissingValue(k, f) ELSE BaseData[f]] :
        S \in SUBSET RequiredFields, k \in MissingKinds}

GuestNames  == {StrV("John Silva"), StrV("Ana Costa")}
RoomTypes   == {Absent, StrV(""), StrV("  "), StrV("Deluxe Room"), StrV("sea view"),
                StrV("Standard"), IntV(2), StrV(" Family")}
AdultCounts == {Absent, Null, IntV(0), IntV(2), StrV("2"), StrV("two"),
                StrV("۲ ")}
ChildCounts == {Absent, Null, IntV(0), IntV(1), StrV("x"), StrV("1_0"),
                StrV("1")}

\* BaseData with other names and room types, and BaseData with other
\* counts, well typed or not.
VariedData ==
    {[BaseData EXCEPT !["guest_name"] = g, !["room_type"] = r] :
        g \in GuestNames, r \in RoomTypes}
    \cup {[BaseData EXCEPT !["adults"] = a, !["children"] = c] :
        a \in AdultCounts, c \in ChildCounts}

\* The dicts the language-understanding service's JSON may denote.
PipelineData == OmissionData \cup VariedData

RECURSIVE Members(_)
\* n members separated by commas.
Members(n) ==
    IF n = 0 THEN <<>>
    ELSE IF n = 1 THEN <<"kv">>
    ELSE <<"kv", ",">> \o Members(n - 1)

\* The JSON text of a dict: one member per key it holds.
Render(data) ==
    <<"{">> \o Members(Cardinality({f \in FieldNames : data[f] # Absent})) \o <<"}">>

\* How the service words its answer around the object.
Wrappings == {"plain", "fenced", "prose", "truncated", "no_json", "twice"}

Wrap(w, object) ==
    CASE w = "plain"     -> object
      [] w = "fenced"    -> <<"fence">> \o object \o <<"fence">>
      [] w = "prose"     -> <<"x">> \o object \o <<"x">>
      [] w = "truncated" -> SubSeq(object, 1, Len(object) - 1)
      [] w = "no_json"   -> <<"x">>
      [] w = "twice"     -> object \o <<"x">> \o object

PipelineExResponses ==
    {NoResponse}
    \cup {[status |-> st, shape |-> sh, text |-> <<>>, data |-> EmptyData] :
        st \in {200, 500}, sh \in {"missing_key", "not_json"}}
    \cup {[status |-> HTTP_OK, shape |-> "text", text |-> Wrap(w, Render(d)), data |-> d] :
        w \in Wrappings, d \in PipelineData}

SubmitStatuses == {0, 200, 201, 204, 400, 401, 500}

\* An answer to a submission: its status (0: httpx.post raised) and whether
\* response.json() can parse its body.
SubmitAnswers == [status : SubmitStatuses, is_json : BOOLEAN]

PipelineLoginResponses ==
    {[status |-> st, is_json |-> TRUE, parses |-> TRUE, body |-> NoBody] :
        st \in {0, 200, 401}}
    \cup {[status |-> LOGIN_OK, is_json |-> TRUE, parses |-> TRUE,
           body |-> [NoBody EXCEPT !.access_token = t]] : t \in Tokens}

\* The record of the interleaved runs: one that can be booked.
ConcData == {BaseData}

ConcExResponses ==
    {[status |-> HTTP_OK, shape |-> "text", text |-> Render(d), data |-> d] :
        d \in ConcData}

\* The login endpoint answers 200, with a token or without one.
ConcLoginResponses == {r \in PipelineLoginResponses : r.status = LOGIN_OK}

\* A submission is accepted, or refused as unauthorized.
ConcSubmitAnswers ==
    {[status |-> 200, is_json |-> TRUE],
     [status |-> HTTP_UNAUTHORIZED, is_json |-> TRUE]}

\* One run is followed over every record and every answer; the runs beside
\* it handle the record that can be booked and are answered in the ways that
\* differ in what they do to the token cache.
FirstRun == CHOOSE p \in Runs : \A q \in Runs : p <= q

ExResponsesOf(p) ==
    IF p = FirstRun THEN PipelineExResponses ELSE ConcExResponses

LoginResponsesOf(p) ==
    IF p = FirstRun THEN PipelineLoginResponses ELSE ConcLoginResponses

SubmitAnswersOf(p) ==
    IF p = FirstRun THEN SubmitAnswers ELSE ConcSubmitAnswers

\* The records of the mails: complete ones, ones that lack required fields,
\* and ones whose room type is blank, null or unknown.
MailData ==
    {BaseData, EmptyData,
     [BaseData EXCEPT !["guest_name"] = Absent, !["email"] = Absent],
     [BaseData EXCEPT !["check_in"] = Null],
     [BaseData EXCEPT !["adults"] = Null]}
    \cup {[BaseData EXCEPT !["room_type"] = r] :
            r \in {Absent, Null, StrV(""), StrV("  "), StrV("Standard")}}

MailExResponses ==
    {NoResponse,
     [status |-> 500, shape |-> "not_json", text |-> <<>>, data |-> EmptyData]}
    \cup {[status |-> HTTP_OK, shape |-> "text", text |-> Render(d), data |-> d] :
        d \in MailData}

Init ==
    /\ cached_token = 0
    /\ run = [p \in Runs |-> IdleRun]
    /\ RtIdle /\ ExIdle /\ AuIdle /\ SvIdle

Others == <<rt_vars, ex_vars, au_vars>>

\* The run ends with this reply (the return statements of main.py).
ReplyWith(p, reply) == [run[p] EXCEPT !.pc = "done", !.reply = reply]

\* main.py 90, 97-99 and ai_extractor.py 53-68: a message arrives and the
\* extraction request is sent.
Receive(p) ==
    /\ run[p].pc = "idle"
    /\ run' = [run EXCEPT ![p].pc = "extracting"]
    /\ UNCHANGED <<cached_token, server, Others>>

\* email_reader.py 100-104: the entry appended to results after a booking.
MailBooked == [kind |-> "MailBooked", items |-> <<>>]

\* email_reader.py 108-110: the entry appended to results after an exception.
MailError == [kind |-> "MailError", items |-> <<>>]

\* An exception of create_booking reaches the caller: main.py 147-155
\* answers with the apology, email_reader.py 108-110 records the error.
Raised(p) ==
    IF run[p].mail
    THEN [run[p] EXCEPT !.pc = "done", !.reply = MailError]
    ELSE ReplyWith(p, SubmissionFailedReply(run[p].details))

\* ai_extractor.py 70-86 and main.py 99-110 on one response: the extractor
\* returns the record or raises, and a raise ends the run with the
\* ExtractionFailed reply.
Extracted(p, response) ==
    LET out == extract_booking_details(response)
    IN  run' = [run EXCEPT ![p] =
            IF out.ok
            THEN [@ EXCEPT !.pc = "validating", !.details = out.data]
            ELSE ReplyWith(p, ExtractionFailedReply)]

\* The extraction request is answered, in any way the service can answer.
ExtractDone(p) ==
    /\ run[p].pc = "extracting" /\ ~run[p].mail
    /\ \E response \in ExResponsesOf(p) : Extracted(p, response)
    /\ UNCHANGED <<cached_token, server, Others>>

\* A completeness check made after the token has been fetched by a login.
Validate_TokenFirst(p) ==
    /\ run[p].pc = "validating"
    /\ LET missing == MissingFrom(1, run[p].details)
       IN  run' = [run EXCEPT ![p] =
               IF missing # <<>>
               THEN [ReplyWith(p, IncompleteReply(missing)) EXCEPT !.logins = 1]
               ELSE [@ EXCEPT !.pc = "submitting"]]
    /\ UNCHANGED <<cached_token, server, Others>>

\* main.py 112-131: the completeness check; a missing field ends the run
\* with the Incomplete reply, otherwise create_booking is called.
Validate(p) ==
    /\ run[p].pc = "validating"
    /\ LET missing == MissingFrom(1, run[p].details)
       IN  run' = [run EXCEPT ![p] =
               IF missing # <<>>
               THEN ReplyWith(p, IncompleteReply(missing))
               ELSE [@ EXCEPT !.pc = "submitting"]]
    /\ UNCHANGED <<cached_token, server, Others>>

\* booking.py 81 and 38-55: get_auth_token(); the cached token, or the
\* login request.
GetToken(p) ==
    /\ run[p].pc = "submitting"
    /\ run' = [run EXCEPT ![p] =
           IF FastPath(cached_token, FALSE)
           THEN [@ EXCEPT !.pc = "resolving", !.token = cached_token]
           ELSE [@ EXCEPT !.pc = "login", !.logins = @ + 1]]
    /\ UNCHANGED <<cached_token, server, Others>>

\* booking.py 57-73 for the call of line 81 on one login response: the
\* token is cached and returned, or the call raises.
LoggedIn(p, response) ==
    LET out == LoginOutcome(response)
    IN  IF out.ok
        THEN /\ cached_token' = out.token
             /\ run' = [run EXCEPT ![p].pc = "resolving",
                                   ![p].token = out.token]
        ELSE /\ run' = [run EXCEPT ![p] = Raised(p)]
             /\ UNCHANGED cached_token

\* The login request of line 81's call is answered.
LoginDone(p) ==
    /\ run[p].pc = "login"
    /\ \E response \in LoginResponsesOf(p) : LoggedIn(p, response)
    /\ UNCHANGED <<server, Others>>

\* booking.py 84-122: resolve the room type, build the payload and send the
\* first submission; an exception ends the run with SubmissionFailed.
ResolveAndSend(p) ==
    /\ run[p].pc = "resolving"
    /\ LET built == BuildPayload(run[p].details)
       IN  run' = [run EXCEPT ![p] =
               IF built.ok
               THEN [@ EXCEPT !.pc = "submitted",
                              !.payload = built.payload,
                              !.sent = <<Submission(run[p].token, built.payload)>>]
               ELSE Raised(p)]
    /\ UNCHANGED <<cached_token, server, Others>>

\* The run's outcome once create_booking returns response.json() (lines 127
\* and 138) or response.json() raises: main.py 131-146 answers Confirmed,
\* email_reader.py 98 goes on to mark the mail as read.
Returned(p, answer, answers) ==
    IF ~answer.is_json THEN [Raised(p) EXCEPT !.answers = answers]
    ELSE IF run[p].mail THEN [run[p] EXCEPT !.pc = "storing", !.answers = answers]
    ELSE [run[p] EXCEPT !.pc = "done", !.answers = answers,
                        !.reply = ConfirmedReply(run[p].details)]

\* booking.py 124-130 on the answer to the first submission: success
\* returns, 401 calls get_auth_token(force_refresh=True), which sends a login
\* request, anything else raises.
Answered(p, answer) ==
    LET answers == Append(run[p].answers, answer)
    IN  run' = [run EXCEPT ![p] =
            IF answer.status # 0 /\ BookingSuccess(answer.status)
            THEN Returned(p, answer, answers)
            ELSE IF NeedsRefresh(answer.status)
                    /\ ~FastPath(cached_token, TRUE)
            THEN [@ EXCEPT !.pc = "relogin", !.answers = answers,
                           !.logins = @ + 1, !.refreshes = @ + 1]
            ELSE [Raised(p) EXCEPT !.answers = answers]]

\* The first submission is answered.
SubmitDone(p) ==
    /\ run[p].pc = "submitted"
    /\ \E answer \in SubmitAnswersOf(p) : Answered(p, answer)
    /\ UNCHANGED <<cached_token, server, Others>>

\* A retry sent with the token of the first attempt.
Refreshed_KeepsOldToken(p, response) ==
    LET out == LoginOutcome(response)
    IN  IF out.ok
        THEN /\ cached_token' = out.token
             /\ run' = [run EXCEPT
                    ![p].pc = "retried",
                    ![p].sent = Append(@, Submission(run[p].token,
                                                     run[p].payload))]
        ELSE /\ run' = [run EXCEPT ![p] =
                    ReplyWith(p, SubmissionFailedReply(run[p].details))]
             /\ UNCHANGED cached_token

\* booking.py 57-73 for the call of line 130, then 131-136, on one login
\* response: the fresh token is cached and the retry is sent with it; a
\* failed login raises.
Refreshed(p, response) ==
    LET out == LoginOutcome(response)
    IN  IF out.ok
        THEN /\ cached_token' = out.token
             /\ run' = [run EXCEPT
                    ![p].pc = "retried", ![p].token = out.token,
                    ![p].sent = Append(@, Submission(out.token,
                                                     run[p].payload))]
        ELSE /\ run' = [run EXCEPT ![p] = Raised(p)]
             /\ UNCHANGED cached_token

\* The login request of the forced refresh is answered.
ReloginDone(p) ==
    /\ run[p].pc = "relogin"
    /\ \E response \in LoginResponsesOf(p) : Refreshed(p, response)
    /\ UNCHANGED <<server, Others>>

\* A retry that, answered 401, refreshes and tries once more.
RetryDone_TriesAgain(p) ==
    /\ run[p].pc = "retried"
    /\ \E answer \in SubmitAnswersOf(p) :
           LET answers == Append(run[p].answers, answer)
           IN  run' = [run EXCEPT ![p] =
                   IF answer.status # 0 /\ BookingSuccess(answer.status)
                   THEN Returned(p, answer, answers)
                   ELSE IF NeedsRefresh(answer.status)
                   THEN [@ EXCEPT !.pc = "relogin", !.answers = answers,
                                  !.logins = @ + 1, !.refreshes = @ + 1]
                   ELSE [ReplyWith(p, SubmissionFailedReply(run[p].details))
                            EXCEPT !.answers = answers]]
    /\ UNCHANGED <<cached_token, server, Others>>

\* booking.py 137-140 on the answer to the retry: success returns, anything
\* else raises.
RetryAnswered(p, answer) ==
    LET answers == Append(run[p].answers, answer)
    IN  run' = [run EXCEPT ![p] =
            IF answer.status # 0 /\ BookingSuccess(answer.status)
            THEN Returned(p, answer, answers)
            ELSE [Raised(p) EXCEPT !.answers = answers]]

\* The retry is answered.
RetryDone(p) ==
    /\ run[p].pc = "retried"
    /\ \E answer \in SubmitAnswersOf(p) : RetryAnswered(p, answer)
    /\ UNCHANGED <<cached_token, server, Others>>

\* main.py 91: the reply is handed to the caller and the run's locals are
\* gone; only the token cache outlives it.
Finish(p) ==
    /\ run[p].pc = "done"
    /\ run' = [run EXCEPT ![p] = IdleRun]
    /\ UNCHANGED <<cached_token, server, Others>>

Next ==
    \E p \in Runs :
        \/ Receive(p)
        \/ ExtractDone(p)
        \/ Validate(p)
        \/ GetToken(p)
        \/ LoginDone(p)
        \/ ResolveAndSend(p)
        \/ SubmitDone(p)
        \/ ReloginDone(p)
        \/ RetryDone(p)
        \/ Finish(p)

Spec == Init /\ [][Next]_vars

(***************************************************************************)
(* SpecMail: check_new_emails (email_reader.py 51-117) working through the *)
(* unread mails, one after another; each record goes to create_booking as  *)
(* it was extracted, and the outcome is an entry of the results list.      *)
(***************************************************************************)
\* email_reader.py 74-92 and 107-109: the mails before this one have been
\* dealt with and the next mail of the loop is fetched.  When the message
\* is read (fetched) the extraction request is sent; when FETCH raises or
\* answers without a message, or the message has no Subject header, lines
\* 76-85 raise and the except clause records an error with no extraction.
MailFetch(p) ==
    /\ run[p].pc = "idle"
    /\ \A q \in Runs : q < p => run[q].pc = "done"
    /\ \E fetched \in BOOLEAN :
           run' = [run EXCEPT ![p] =
               IF fetched
               THEN [@ EXCEPT !.pc = "extracting", !.mail = TRUE]
               ELSE [@ EXCEPT !.pc = "done", !.mail = TRUE, !.reply = MailError]]
    /\ UNCHANGED <<cached_token, server, Others>>

\* email_reader.py 89-95 and 107-109 on one response: the record goes
\* straight to create_booking, and a raise is recorded as an error.
MailExtracted(p, response) ==
    LET out == extract_booking_details(response)
    IN  run' = [run EXCEPT ![p] =
            IF out.ok
            THEN [@ EXCEPT !.pc = "submitting", !.details = out.data]
            ELSE Raised(p)]

\* The extraction request of a mail is answered.
MailExtractDone(p) ==
    /\ run[p].pc = "extracting" /\ run[p].mail
    /\ \E response \in MailExResponses : MailExtracted(p, response)
    /\ UNCHANGED <<cached_token, server, Others>>

\* email_reader.py 98-110: the STORE request that marks the mail as read is
\* answered.  After it the booking is appended to the results; when it
\* raises, the except clause appends an error in its place, although the
\* reservation system accepted the submission.
MailStore(p) ==
    /\ run[p].pc = "storing"
    /\ \E stored \in BOOLEAN :
           run' = [run EXCEPT ![p].pc = "done",
                              ![p].reply = IF stored THEN MailBooked ELSE MailError]
    /\ UNCHANGED <<cached_token, server, Others>>

NextMail ==
    \E p \in Runs :
        \/ MailFetch(p)
        \/ MailExtractDone(p)
        \/ MailStore(p)
        \/ GetToken(p)
        \/ LoginDone(p)
        \/ ResolveAndSend(p)
        \/ SubmitDone(p)
        \/ ReloginDone(p)
        \/ RetryDone(p)

SpecMail == Init /\ [][NextMail]_vars

(***************************************************************************)
(* SpecConc: pipeline runs interleaved in any order over the shared token  *)
(* cache, each handling one message, against a reservation system that     *)
(* accepts the tokens its logins returned until it invalidates them, once. *)
(***************************************************************************)
InitConc ==
    /\ cached_token = 0
    /\ run = [p \in Runs |-> IdleRun]
    /\ server = NoServer
    /\ RtIdle /\ ExIdle /\ AuIdle

\* The reservation system after it answered run p's login request: a token
\* it returned is one it accepts from now on.
Granted(p, response) ==
    LET out == LoginOutcome(response)
    IN  IF response.status = LOGIN_OK /\ response.is_json /\ out.token # 0
        THEN [server EXCEPT !.valid = @ \cup {out.token},
                            !.issued = @ \cup {out.token}]
        ELSE [server EXCEPT !.denied = @ \cup {p}]

\* How the reservation system answers a submission that carries this token:
\* it accepts it, or it answers unauthorized.
ServerAnswers(token) ==
    IF token \in server.valid
    THEN {[status |-> 200, is_json |-> TRUE]}
    ELSE {[status |-> HTTP_UNAUTHORIZED, is_json |-> TRUE]}

\* The reservation system invalidates every token it has issued so far.
Invalidate ==
    /\ ~server.invalidated
    /\ server.valid # {}
    /\ server' = [server EXCEPT !.valid = {}, !.invalidated = TRUE]
    /\ UNCHANGED <<cached_token, run, Others>>

ConcExtract(p) ==
    /\ run[p].pc = "extracting" /\ ~run[p].mail
    /\ \E response \in ConcExResponses : Extracted(p, response)
    /\ UNCHANGED <<cached_token, server, Others>>

ConcLogin(p) ==
    /\ run[p].pc = "login"
    /\ \E response \in ConcLoginResponses :
           /\ LoggedIn(p, response)
           /\ server' = Granted(p, response)
    /\ UNCHANGED Others

ConcSubmit(p) ==
    /\ run[p].pc = "submitted"
    /\ \E answer \in ServerAnswers(run[p].sent[1].token) : Answered(p, answer)
    /\ UNCHANGED <<cached_token, server, Others>>

ConcRelogin(p) ==
    /\ run[p].pc = "relogin"
    /\ \E response \in ConcLoginResponses :
           /\ Refreshed(p, response)
           /\ server' = Granted(p, response)
    /\ UNCHANGED Others

ConcRetry(p) ==
    /\ run[p].pc = "retried"
    /\ \E answer \in ServerAnswers(run[p].sent[2].token) :
           RetryAnswered(p, answer)
    /\ UNCHANGED <<cached_token, server, Others>>

NextConc ==
    \/ Invalidate
    \/ \E p \in Runs :
        \/ Receive(p)
        \/ ConcExtract(p)
        \/ Validate(p)
        \/ GetToken(p)
        \/ ConcLogin(p)
        \/ ResolveAndSend(p)
        \/ ConcSubmit(p)
        \/ ConcRelogin(p)
        \/ ConcRetry(p)

SpecConc == InitConc /\ [][NextConc]_vars

(***************************************************************************)
(* Properties of the room-type resolver (SpecResolve).                     *)
(***************************************************************************)
\* a occurs in b: some stretch of b, between two cut points, is a.
RefSubstring(a, b) ==
    \E i \in 0..Len(b), j \in 0..Len(b) : i <= j /\ SubSeq(b, i + 1, j) = a

\* The table positions whose key is inside s or has s inside it.
RefHits(s) ==
    {i \in 1..Len(ROOM_TYPE_MAP) :
        \/ RefSubstring(Chars(ROOM_TYPE_MAP[i][1]), s)
        \/ RefSubstring(s, Chars(ROOM_TYPE_MAP[i][1]))}

\* The reference rule: exact key, else the first partial hit in insertion
\* order, else 0 (no id).
RefRoomId(text) ==
    LET s == Strip(Lower(text))
    IN  IF \E i \in 1..Len(ROOM_TYPE_MAP) : Chars(ROOM_TYPE_MAP[i][1]) = s
        THEN ROOM_TYPE_MAP[CHOOSE i \in 1..Len(ROOM_TYPE_MAP) :
                               Chars(ROOM_TYPE_MAP[i][1]) = s][2]
        ELSE IF RefHits(s) # {}
        THEN ROOM_TYPE_MAP[CHOOSE i \in RefHits(s) :
                               \A j \in RefHits(s) : i <= j][2]
        ELSE 0

\* The six canonical labels and the aliases with their documented ids.
DocumentedIds == {
    <<"premium suite", 1>>, <<"deluxe room", 2>>, <<"executive room", 3>>,
    <<"family suite", 4>>, <<"deluxe sea view room", 5>>,
    <<"presidential suite", 6>>, <<"deluxe", 2>>, <<"executive", 3>>,
    <<"family", 4>>, <<"sea view", 5>>, <<"presidential", 6>>}

ValidLabels == <<"premium suite", "deluxe room", "deluxe", "executive room",
                 "executive", "family suite", "family", "deluxe sea view room",
                 "sea view", "presidential suite", "presidential">>

\* C7: for every input text the resolver's result is the reference rule's:
\* the exact key's id after lowercasing and trimming, else the id of the
\* first key in insertion order that is inside the input or has the input
\* inside it, else a failure that lists the valid labels; every canonical
\* label and alias, in any letter case, gets its documented id, and
\* "Standard" fails.
C7_ResolutionIsReferenceRule ==
    rt_pc = "done" =>
        /\ rt_out.ok = (RefRoomId(rt_in) # 0)
        /\ rt_out.id = RefRoomId(rt_in)
        /\ ~rt_out.ok => rt_out.valid = ValidLabels /\ rt_out.text = rt_in
        /\ \A d \in DocumentedIds :
               Strip(Lower(rt_in)) = Chars(d[1]) => rt_out.ok /\ rt_out.id = d[2]
        /\ rt_in = "Standard" => ~rt_out.ok

\* A partial match with two candidate keys of different ids: "deluxe" (2)
\* comes before "sea view" (5) in the table.
C7_Witness ==
    /\ rt_pc = "done"
    /\ rt_in = "Deluxe Sea View"
    /\ rt_out.ok /\ rt_out.id = 2

(***************************************************************************)
(* Properties of the extractor (SpecExtract).                              *)
(***************************************************************************)
\* s is one JSON object: braces around members separated by commas.
IsJsonObject(s) ==
    /\ Len(s) >= 2
    /\ s[1] = "{"
    /\ s[Len(s)] = "}"
    /\ LET inner == SubSeq(s, 2, Len(s) - 1)
       IN  \/ inner = <<>>
           \/ /\ Len(inner) % 2 = 1
              /\ \A k \in 1..Len(inner) :
                     inner[k] = (IF k % 2 = 1 THEN "kv" ELSE ",")

\* Some stretch of the text is a JSON object.
ContainsJsonObject(text) ==
    \E i \in 1..Len(text), j \in 1..Len(text) :
        i < j /\ IsJsonObject(SubSeq(text, i, j))

\* The text with its Markdown fences taken out.
WithoutFences(text) == SelectSeq(text, LAMBDA tok : tok # "fence")

\* The text has an opening brace with a closing brace after it.
HasBraceSpan(text) ==
    \E i \in 1..Len(text), j \in 1..Len(text) :
        i < j /\ text[i] = "{" /\ text[j] = "}"

\* The stretch from the first opening brace to the last closing brace.
BraceSpan(text) ==
    LET i == CHOOSE a \in 1..Len(text) :
                 text[a] = "{" /\ \A b \in 1..(a - 1) : text[b] # "{"
        j == CHOOSE a \in 1..Len(text) :
                 text[a] = "}" /\ \A b \in (a + 1)..Len(text) : text[b] # "}"
    IN  SubSeq(text, i, j)

\* The response text as every part of C10 reads it: the text the service
\* returned with its Markdown fence markers stripped, which is the step the
\* extractor takes before it looks for the object.
ResponseText == WithoutFences(ex_resp.text)

\* What C10 says of every failure: one request and no retry; a non-success
\* status, a text with no JSON object, and a JSON span (first opening brace
\* to last closing brace) that does not parse each raise.
ExtractFailures ==
    /\ ex_calls = 1
    /\ ex_resp.status \notin 200..299 => ~ex_out.ok
    /\ ~ContainsJsonObject(ResponseText) => ~ex_out.ok
    /\ (HasBraceSpan(ResponseText) /\ ~IsJsonObject(BraceSpan(ResponseText)))
           => ~ex_out.ok

\* C10: an invocation makes exactly one request and never retries; a
\* non-success status, a response text containing no JSON object, and a JSON
\* span that is not syntactically valid each make extract_booking_details
\* raise; only a response containing a parseable JSON object yields a
\* record, and the record is that object's.  The response text is read, in
\* every part alike, with its Markdown fence markers stripped.
C10_ExtractionFailsHard ==
    ex_pc = "done" =>
        /\ ExtractFailures
        /\ ex_out.ok =>
               /\ ex_resp.status = HTTP_OK /\ HasText(ex_resp)
               /\ ContainsJsonObject(ResponseText)
               /\ ex_out.data = ex_resp.data

\* A fenced response whose greedy span holds two objects: one request, and
\* an error although the text contains an object.
C10_Witness ==
    /\ ex_pc = "done"
    /\ ex_calls = 1
    /\ ex_resp.text = <<"fence", "{", "}", "{", "}">>
    /\ ~ex_out.ok

(***************************************************************************)
(* Properties of the token cache (SpecAuth).                               *)
(***************************************************************************)
\* The token a login response carries: on status 200 with a JSON body, the
\* first non-empty one of token, access_token, jwt, authToken; 0 when the
\* login yields no token.
RefLoginToken(response) ==
    LET fields == <<response.body.token, response.body.access_token,
                    response.body.jwt, response.body.authToken>>
        hits   == {i \in 1..Len(fields) : fields[i] # 0}
    IN  IF response.status # 200 \/ ~response.is_json \/ hits = {} THEN 0
        ELSE fields[CHOOSE i \in hits : \A j \in hits : i <= j]

\* C2: a call with force_refresh=False made while a token is cached returns
\* that token, makes no login call and leaves the cache as it was; and once a
\* login has succeeded, as long as no call asks for a forced refresh, no
\* further login call is made.
C2_FastPathKeepsCache ==
    /\ (au_pc # "idle" /\ ~au_force /\ au_before # 0) =>
           /\ au_pc = "returned"
           /\ au_ret = au_before
           /\ au_logins = 0
           /\ au_resp = NoLogin
           /\ cached_token = au_before
    /\ (au_won /\ ~au_forced) => au_later = 0

\* A non-forced call has returned the cached token after an earlier login.
C2_Witness ==
    /\ au_pc = "returned" /\ ~au_force /\ au_won /\ ~au_forced
    /\ au_before # 0 /\ au_ret = au_before /\ au_logins = 0

\* C3: a call with force_refresh=True, whatever the cache holds, makes exactly
\* one login call, and the token that login returns replaces the cached value
\* and is the value returned to the caller.
C3_ForcedRefreshReplaces ==
    (au_pc # "idle" /\ au_force) =>
        /\ au_logins = 1
        /\ au_pc = "login" => cached_token = au_before
        /\ au_pc \in {"returned", "raised"} =>
               /\ au_pc = "returned" <=> RefLoginToken(au_resp) # 0
               /\ RefLoginToken(au_resp) # 0 =>
                      /\ cached_token = RefLoginToken(au_resp)
                      /\ au_ret = RefLoginToken(au_resp)

\* A forced call made over a cached token has replaced it with another one.
C3_Witness ==
    /\ au_force /\ au_pc = "returned" /\ au_logins = 1
    /\ au_before # 0 /\ cached_token # au_before /\ au_ret = cached_token
    /\ au_resp.body.token = 0 /\ au_resp.body.access_token # 0

(***************************************************************************)
(* Properties of the pipeline (Spec).                                      *)
(***************************************************************************)
Done(p) == run[p].pc = "done"

\* The answer that ended the create_booking call of run p.
LastAnswer(p) == run[p].answers[Len(run[p].answers)]

\* An answer create_booking returns from: status 200 or 201 with a body that
\* parses.
Accepted(answer) == answer.status \in {200, 201} /\ answer.is_json

\* C1: one create_booking call sends at most two submissions and makes at
\* most one forced refresh, the second submission only after a 401 and that
\* refresh; 401 then an accepted retry gives Confirmed after one refresh and
\* one retry; 401 twice gives SubmissionFailed and no third submission.
C1_BoundedSingleRetry ==
    \A p \in Runs :
        /\ Len(run[p].sent) <= 2
        /\ run[p].refreshes <= 1
        /\ Len(run[p].answers) <= Len(run[p].sent)
        /\ Len(run[p].sent) = 2 =>
               /\ run[p].answers[1].status = 401
               /\ run[p].refreshes = 1
               /\ run[p].sent[2].payload = run[p].sent[1].payload
        /\ (Done(p) /\ Len(run[p].answers) = 2 /\ Accepted(run[p].answers[2])) =>
               /\ run[p].reply.kind = "Confirmed"
               /\ run[p].refreshes = 1
               /\ Len(run[p].sent) = 2
        /\ (Done(p) /\ Len(run[p].answers) = 2
                /\ run[p].answers[2].status = 401) =>
               /\ run[p].reply.kind = "SubmissionFailed"
               /\ run[p].refreshes = 1
               /\ Len(run[p].sent) = 2

\* 401, then the retry is accepted.
C1_Witness ==
    \E p \in Runs :
        /\ Done(p) /\ run[p].reply.kind = "Confirmed"
        /\ Len(run[p].answers) = 2 /\ run[p].answers[1].status = 401
        /\ Accepted(run[p].answers[2])
        /\ run[p].refreshes = 1 /\ Len(run[p].sent) = 2

\* A required field is missing from a record when its key is absent or its
\* value is null, the empty string or zero.
RefMissing(v) == v \in {Absent, Null, StrV(""), IntV(0)}

\* The label a reply uses for each required field.
RefLabel ==
    [f \in {"guest_name", "email", "check_in", "check_out", "room_type", "adults"} |->
        CASE f = "guest_name" -> "your full name"
          [] f = "email"      -> "your email address"
          [] f = "check_in"   -> "check-in date"
          [] f = "check_out"  -> "check-out date"
          [] f = "room_type"  -> "room type"
          [] f = "adults"     -> "number of adults"]

RefMissingFields(details) == {f \in DOMAIN RefLabel : RefMissing(details[f])}

\* C4: when the extracted record misses a non-empty set of the six required
\* fields, the run ends in Incomplete and the reply names the label of every
\* missing field, once each, and of no other field; a record that misses
\* none does not end in Incomplete.
C4_IncompleteIsExact ==
    \A p \in Runs :
        (Done(p) /\ run[p].reply.kind # "ExtractionFailed") =>
            LET missing == RefMissingFields(run[p].details)
                items   == run[p].reply.items
            IN  /\ missing # {} =>
                       /\ run[p].reply.kind = "Incomplete"
                       /\ {items[i] : i \in 1..Len(items)} =
                              {RefLabel[f] : f \in missing}
                       /\ Len(items) = Cardinality(missing)
                       /\ run[p].sent = <<>>
                /\ run[p].reply.kind = "Incomplete" => missing # {}

\* Two fields are missing and the reply names both, not just the first.
C4_Witness ==
    \E p \in Runs :
        /\ Done(p) /\ run[p].reply.kind = "Incomplete"
        /\ RefMissingFields(run[p].details) = {"email", "adults"}
        /\ run[p].reply.items = <<"your email address", "number of adults">>

\* Every required field has a value.
Populated(details) == RefMissingFields(details) = {}

\* The room type is a text the reference rule gives an id.
Resolvable(details) ==
    details["room_type"].t = "str" /\ RefRoomId(details["room_type"].s) # 0

RefDigits == {"0", "1", "2", "3", "4", "5", "6", "7", "8", "9"}

\* A count that converts to an integer: a number, or a text of digits.
RefIsCount(v) ==
    \/ v.t = "int"
    \/ /\ v.t = "str" /\ v.s # ""
       /\ \A i \in 1..Len(v.s) : SubSeq(v.s, i, i) \in RefDigits

CountsConvert(details) ==
    /\ RefIsCount(details["adults"])
    /\ details["children"] = Absent \/ RefIsCount(details["children"])

RefDecimal == <<"0", "1", "2", "3", "4", "5", "6", "7", "8", "9">>

\* A captured value as the summary shows it.
RefText(v) == IF v.t = "str" THEN v.s ELSE RefDecimal[v.n + 1]

\* The captured values a confirmation restates; no children means 0.
RefSummary(details) ==
    <<RefText(details["guest_name"]), RefText(details["room_type"]),
      RefText(details["check_in"]), RefText(details["check_out"]),
      RefText(details["adults"]),
      IF details["children"] = Absent THEN "0" ELSE RefText(details["children"]),
      RefText(details["email"])>>

\* C5 as first stated: every populated record with a resolvable room type is
\* submitted and answered with a Confirmed reply that restates its values.
C5_Original ==
    \A p \in Runs :
        (Done(p) /\ Populated(run[p].details) /\ Resolvable(run[p].details)) =>
            /\ Len(run[p].sent) >= 1
            /\ run[p].reply.kind = "Confirmed"
            /\ run[p].reply.items = RefSummary(run[p].details)

\* C5: for a populated record with a resolvable room type, a submission is
\* sent once a token is available and the counts convert to integers, and
\* when a submission (the first, or the retry) is answered 200 or 201 with a
\* JSON body the reply is Confirmed and restates every captured value;
\* nothing else gives Confirmed.
C5_ConfirmedWhenAccepted ==
    \A p \in Runs :
        (Done(p) /\ Populated(run[p].details) /\ Resolvable(run[p].details)) =>
            /\ (run[p].token # 0 /\ CountsConvert(run[p].details)) =>
                   Len(run[p].sent) >= 1
            /\ (run[p].answers # <<>> /\ Accepted(LastAnswer(p))) =>
                   /\ run[p].reply.kind = "Confirmed"
                   /\ run[p].reply.items = RefSummary(run[p].details)
            /\ run[p].reply.kind = "Confirmed" =>
                   run[p].answers # <<>> /\ Accepted(LastAnswer(p))

\* A booking with a child is confirmed on the retry.
C5_Witness ==
    \E p \in Runs :
        /\ Done(p) /\ run[p].reply.kind = "Confirmed"
        /\ Populated(run[p].details) /\ Resolvable(run[p].details)
        /\ run[p].details["children"] = IntV(1)
        /\ run[p].reply.items[6] = "1"
        /\ Len(run[p].sent) = 2

TerminalKinds == {"ExtractionFailed", "Incomplete", "SubmissionFailed", "Confirmed"}

\* How far a run has come; every step moves it on.
RefRank(pc) ==
    CASE pc = "idle"       -> 0
      [] pc = "extracting" -> 1
      [] pc = "validating" -> 2
      [] pc = "submitting" -> 3
      [] pc = "login"      -> 4
      [] pc = "resolving"  -> 5
      [] pc = "submitted"  -> 6
      [] pc = "relogin"    -> 7
      [] pc = "retried"    -> 8
      [] pc = "done"       -> 9
      [] OTHER             -> 10

\* What holds of a run at every moment: it is at a known step, a finished
\* run has one reply of the four kinds, an unfinished one has none.
OneTerminalReply ==
    \A p \in Runs :
        /\ RefRank(run[p].pc) <= 9
        /\ Done(p) => run[p].reply.kind \in TerminalKinds
        /\ ~Done(p) => run[p].reply = NoReply
        /\ RefRank(run[p].pc) \in {7, 8} => Len(run[p].answers) = 1
        /\ RefRank(run[p].pc) <= 6 => run[p].answers = <<>>
        /\ RefRank(run[p].pc) <= 5 => run[p].sent = <<>>
        /\ RefRank(run[p].pc) <= 2 => run[p].logins = 0

\* A step of a run takes it further on, and only a finished run starts anew.
StepsForward ==
    \A p \in Runs :
        run'[p] # run[p] =>
            \/ RefRank(run'[p].pc) > RefRank(run[p].pc)
            \/ Done(p) /\ run'[p] = IdleRun

\* C6: whatever the extractor, the login and the submissions answer, a run
\* goes forward at every step through at most nine steps, so it comes to an
\* end, and it ends with exactly one reply, of one of the four kinds; until
\* then there is no reply, and no step leaves it anywhere else.
C6_Totality == []OneTerminalReply /\ [][StepsForward]_vars

\* A badly typed record (the room type is a number) ends in SubmissionFailed.
C6_Witness ==
    \E p \in Runs :
        /\ Done(p) /\ run[p].reply.kind = "SubmissionFailed"
        /\ run[p].details["room_type"].t = "int"
        /\ run[p].sent = <<>>

\* The first answer of run p is neither 200 or 201 nor 401.
OtherFailure(answers) ==
    Len(answers) >= 1 /\ answers[1].status \notin {200, 201, 401}

\* Such an answer ends create_booking at once.
FailsAtOnce ==
    \A p \in Runs :
        OtherFailure(run[p].answers) =>
            /\ Done(p)
            /\ run[p].reply.kind = "SubmissionFailed"
            /\ Len(run[p].answers) = 1
            /\ Len(run[p].sent) = 1
            /\ run[p].refreshes = 0
            /\ run[p].logins <= 1

\* The step that takes such an answer leaves the cache as it is.
FailureKeepsCache ==
    \A p \in Runs :
        (run[p].answers = <<>> /\ OtherFailure(run'[p].answers)) =>
            cached_token' = cached_token

\* C8: a first answer that is neither 200 or 201 nor 401 ends create_booking
\* at once: SubmissionFailed, one submission only, no forced refresh and no
\* login after it, and the call leaves the cached token unchanged.
C8_OtherFailuresDoNotRetry ==
    []FailsAtOnce /\ [][FailureKeepsCache]_vars

\* A 400 answer ended the call.
C8_Witness ==
    \E p \in Runs :
        /\ Done(p) /\ run[p].answers = <<[status |-> 400, is_json |-> TRUE]>>
        /\ run[p].reply.kind = "SubmissionFailed"
        /\ Len(run[p].sent) = 1 /\ cached_token # 0

\* C9 as first stated: every 2xx answer to a submission is a success.
C9_Original ==
    \A p \in Runs :
        (Done(p) /\ run[p].answers # <<>>
            /\ LastAnswer(p).status \in 200..299 /\ LastAnswer(p).is_json) =>
            run[p].reply.kind = "Confirmed"

\* C9: an answer to a submission, first or retry, is a success exactly when
\* its status is 200 or 201, and then the parsed JSON body is returned; every
\* other status, 2xx or not, fails or, for a first 401, leads to the retry.
C9_SuccessIs200Or201 ==
    \A p \in Runs :
        /\ (Done(p) /\ run[p].answers # <<>>) =>
               /\ run[p].reply.kind = "Confirmed" <=> Accepted(LastAnswer(p))
               /\ ~Accepted(LastAnswer(p)) => run[p].reply.kind = "SubmissionFailed"
        /\ Len(run[p].answers) = 2 => run[p].answers[1].status = 401

\* A 201 answer is a success.
C9_Witness ==
    \E p \in Runs :
        /\ Done(p) /\ run[p].answers # <<>>
        /\ LastAnswer(p).status = 201 /\ LastAnswer(p).is_json
        /\ run[p].reply.kind = "Confirmed"

\* The ids of the canonical room-type table.
TableIds == 1..6

\* C11: every record the extractor returns has all nine fields and no null
\* among them (what the upstream answer omits or gives as null is filled
\* with the empty string, 1 adult or 0 children).
C11_RecordIsComplete ==
    \A p \in Runs :
        run[p].pc = "validating" =>
            \A f \in FieldNames : run[p].details[f] \notin {Absent, Null}

\* Every request a run has sent carries an id of the table, an empty
\* children_ages list and the payload the run built.
SentCarriesTableId ==
    \A p \in Runs :
        \A i \in 1..Len(run[p].sent) :
            /\ run[p].sent[i].payload.room_type_id \in TableIds
            /\ run[p].sent[i].payload.children_ages = <<>>
            /\ run[p].sent[i].payload = run[p].payload

\* A step that sends a request sends the id the reference rule gives the
\* record's room type, so the room type is one that resolves.
SendsResolvedId ==
    \A p \in Runs :
        Len(run'[p].sent) > Len(run[p].sent) =>
            /\ run'[p].details["room_type"].t = "str"
            /\ run'[p].sent[Len(run'[p].sent)].payload.room_type_id =
                   RefRoomId(run'[p].details["room_type"].s)
            /\ Resolvable(run'[p].details)

\* C12: every submission request carries a room_type_id of the table (1..6),
\* the one the room type resolves to, and an empty children_ages list; no
\* request is sent for a record whose room type does not resolve.
C12_SubmissionHasTableId ==
    []SentCarriesTableId /\ [][SendsResolvedId]_vars

\* A submission for the alias "sea view" carries id 5.
C12_Witness ==
    \E p \in Runs :
        /\ Len(run[p].sent) = 2
        /\ run[p].details["room_type"] = StrV("sea view")
        /\ run[p].sent[2].payload.room_type_id = 5
        /\ run[p].sent[2].payload.children_ages = <<>>

\* C13: a run replies Confirmed only if one of its submissions was answered
\* with a success status; a run whose login failed, whose room type has no
\* id or whose submissions were all rejected does not.
C13_ConfirmedOnlyAfterSuccess ==
    \A p \in Runs :
        /\ run[p].reply.kind = "Confirmed" =>
               /\ run[p].sent # <<>>
               /\ Len(run[p].answers) = Len(run[p].sent)
               /\ LastAnswer(p).status \in {200, 201}
               /\ run[p].token # 0
               /\ Resolvable(run[p].details)
        /\ (Done(p) /\ \A i \in 1..Len(run[p].answers) :
                           run[p].answers[i].status \notin {200, 201}) =>
               run[p].reply.kind # "Confirmed"

\* Every submission of a run was rejected and the reply is SubmissionFailed.
C13_Witness ==
    \E p \in Runs :
        /\ Done(p) /\ Len(run[p].answers) = 2
        /\ run[p].answers[1].status = 401 /\ run[p].answers[2].status = 400
        /\ run[p].reply.kind = "SubmissionFailed"

\* C14 as first stated: the retry carries the token of the forced refresh,
\* which is never the token of the first attempt, and the same payload.
C14_Original ==
    \A p \in Runs :
        Len(run[p].sent) = 2 =>
            /\ run[p].sent[2].token = run[p].token
            /\ run[p].sent[2].token # run[p].sent[1].token
            /\ run[p].sent[2].payload = run[p].sent[1].payload

\* A retry follows a 401 and carries the token the run holds after its
\* forced refresh and the payload of the first submission.
RetryAfterRefresh ==
    \A p \in Runs :
        Len(run[p].sent) = 2 =>
            /\ run[p].answers # <<>> /\ run[p].answers[1].status = 401
            /\ run[p].refreshes = 1
            /\ run[p].sent[2].token = run[p].token
            /\ run[p].sent[2].token # 0
            /\ run[p].sent[2].payload = run[p].sent[1].payload

\* The step that sends the retry sends the token its login returned, which
\* the same step caches.
RetryTakesLoginToken ==
    \A p \in Runs :
        (Len(run[p].sent) = 1 /\ Len(run'[p].sent) = 2) =>
            run'[p].sent[2].token = cached_token'

\* C14: after a 401 the retry carries the token the forced refresh of that
\* call returned, whether or not the login returned the token of the first
\* attempt again, and the payload of the first submission.
C14_RetryCarriesRefreshedToken ==
    []RetryAfterRefresh /\ [][RetryTakesLoginToken]_vars

\* The retry went out with another token than the first attempt.
C14_Witness ==
    \E p \in Runs :
        /\ run[p].pc = "retried" /\ Len(run[p].sent) = 2
        /\ run[p].sent[1].token = 1 /\ run[p].sent[2].token = 2
        /\ run[p].refreshes = 1
        /\ run[p].sent[2].payload = run[p].sent[1].payload

(***************************************************************************)
(* Properties of interleaved runs (SpecConc).                              *)
(***************************************************************************)
\* C15: in every interleaving, a run whose first submission is answered
\* unauthorized and whose refresh login is not refused makes one forced
\* refresh and one retry, the retry is accepted and the run ends Confirmed.
C15_StaleReadSelfHeals ==
    \A p \in Runs :
        /\ (Done(p) /\ run[p].answers # <<>> /\ run[p].answers[1].status = 401
                /\ p \notin server.denied) =>
               /\ run[p].reply.kind = "Confirmed"
               /\ run[p].refreshes = 1
               /\ Len(run[p].sent) = 2
               /\ Len(run[p].answers) = 2 /\ Accepted(run[p].answers[2])
        /\ run[p].pc = "retried" => run[p].sent[2].token \in server.valid

\* A run took its token from the cache, was answered 401, refreshed and was
\* confirmed while another run was under way.
C15_Witness ==
    \E p \in Runs :
        /\ Done(p) /\ run[p].reply.kind = "Confirmed"
        /\ run[p].answers[1].status = 401
        /\ run[p].logins = 1 /\ run[p].refreshes = 1
        /\ \E q \in Runs \ {p} : run[q].pc \notin {"idle", "done"}

\* The runs whose forced refresh has returned a token.
Refreshers == {p \in Runs : run[p].refreshes = 1 /\ Len(run[p].sent) = 2}

\* The cache holds nothing or a token some login returned, and then the
\* token of the run that wrote it last; when every run has refreshed, it is
\* the token one of the refreshes obtained.
CacheHoldsOneLoginToken ==
    /\ cached_token \in {0} \cup server.issued
    /\ cached_token # 0 =>
           \E p \in Runs : run[p].logins >= 1 /\ run[p].token = cached_token
    /\ Refreshers = Runs =>
           cached_token \in {run[p].sent[2].token : p \in Runs}

\* C16: in every interleaving the cache is empty or holds exactly one token
\* that a successful login returned; once it holds a token it never becomes
\* empty again; after the refreshes of all runs raced it holds the token of
\* one of them.
C16_LostUpdateIsBenign ==
    /\ []CacheHoldsOneLoginToken
    /\ [][cached_token # 0 => cached_token' # 0]_vars

\* Two refreshes raced: both runs refreshed, got different tokens, and the
\* cache holds the token of the first run although the second is also done.
C16_Witness ==
    /\ Refreshers = Runs
    /\ run[1].sent[2].token # run[2].sent[2].token
    /\ cached_token = run[1].sent[2].token
    /\ \A p \in Runs : Done(p)

(***************************************************************************)
(* Properties of the order of the pipeline's stages (Spec).                *)
(***************************************************************************)
EarlyKinds == {"ExtractionFailed", "Incomplete"}

\* A run that ended before Submitting has contacted nobody.
EarlyEndContactsNobody ==
    \A p \in Runs :
        (Done(p) /\ run[p].reply.kind \in EarlyKinds) =>
            /\ run[p].logins = 0 /\ run[p].refreshes = 0
            /\ run[p].sent = <<>> /\ run[p].answers = <<>>
            /\ run[p].token = 0

\* The steps up to the end of Validating leave the cache alone, and only
\* they end a run in ExtractionFailed or Incomplete.
EarlyStepsKeepCache ==
    \A p \in Runs :
        /\ (RefRank(run[p].pc) <= 2 /\ run'[p] # run[p]) =>
               cached_token' = cached_token
        /\ (~Done(p) /\ run'[p].pc = "done"
                /\ run'[p].reply.kind \in EarlyKinds) =>
               RefRank(run[p].pc) \in {1, 2}

\* C17: a run that ends in ExtractionFailed or Incomplete has made no login
\* call and no submission request, and none of its steps changed the cache.
C17_EarlyEndLeavesSystemAlone ==
    []EarlyEndContactsNobody /\ [][EarlyStepsKeepCache]_vars

\* An extraction failed while the cache held the token of an earlier run.
C17_Witness ==
    \E p \in Runs :
        /\ Done(p) /\ run[p].reply.kind = "ExtractionFailed"
        /\ run[p].logins = 0 /\ run[p].sent = <<>>
        /\ cached_token # 0

\* The six required fields have values but the room type is in no key.
UnknownRoom(details) ==
    /\ Populated(details)
    /\ details["room_type"].t = "str"
    /\ RefRoomId(details["room_type"].s) = 0

\* C18: a record with its six required fields and a room type that matches
\* no key passes Validating (create_booking is called) and ends in
\* SubmissionFailed with the guest's name in the apology, never Incomplete.
C18_ResolutionInSubmitting ==
    \A p \in Runs :
        (RefRank(run[p].pc) \in 3..8 => run[p].reply = NoReply)
        /\ ((Done(p) /\ UnknownRoom(run[p].details)) =>
               /\ run[p].reply.kind = "SubmissionFailed"
               /\ run[p].reply.items = <<RefText(run[p].details["guest_name"])>>
               /\ run[p].token # 0 \/ run[p].logins = 1
               /\ run[p].sent = <<>>)

\* "Standard" got through Validating and a token, and failed in create_booking.
C18_Witness ==
    \E p \in Runs :
        /\ Done(p) /\ run[p].details["room_type"] = StrV("Standard")
        /\ Populated(run[p].details)
        /\ run[p].token # 0
        /\ run[p].reply.kind = "SubmissionFailed"
        /\ run[p].reply.items = <<"Ana Costa">>

\* C19: for a record whose room type matches no key the run fails without
\* any login call and without any submission request.
C19_ResolvedBeforeContact ==
    \A p \in Runs :
        (Done(p) /\ UnknownRoom(run[p].details)) =>
            /\ run[p].reply.kind = "SubmissionFailed"
            /\ run[p].logins = 0
            /\ run[p].sent = <<>>

\* The five text fields have values.
TextsPopulated(details) ==
    \A f \in DOMAIN RefLabel \ {"adults"} : ~RefMissing(details[f])

\* C20 as first stated: with the five text fields populated and an adult
\* count that is any integer from 0 on, the run is never answered Incomplete.
C20_Original ==
    \A p \in Runs :
        (Done(p) /\ TextsPopulated(run[p].details)
            /\ run[p].details["adults"].t = "int"
            /\ run[p].details["adults"].n >= 0) =>
            run[p].reply.kind # "Incomplete"

\* C20: with the five text fields populated, an adult count that is an
\* integer from 1 on is never answered Incomplete and create_booking is
\* called; an adult count of 0 is answered Incomplete, naming the adults.
C20_ZeroAdultsIsMissing ==
    \A p \in Runs :
        (Done(p) /\ TextsPopulated(run[p].details)
            /\ run[p].details["adults"].t = "int") =>
            /\ run[p].details["adults"].n >= 1 =>
                   /\ run[p].reply.kind # "Incomplete"
                   /\ run[p].token # 0 \/ run[p].logins = 1
            /\ run[p].details["adults"].n = 0 =>
                   /\ run[p].reply.kind = "Incomplete"
                   /\ run[p].reply.items = <<"number of adults">>
                   /\ run[p].logins = 0

\* A record with 0 adults was answered Incomplete.
C20_Witness ==
    \E p \in Runs :
        /\ Done(p) /\ run[p].details["adults"] = IntV(0)
        /\ TextsPopulated(run[p].details)
        /\ run[p].reply.kind = "Incomplete"
        /\ run[p].reply.items = <<"number of adults">>

(***************************************************************************)
(* Properties of blank room types (SpecMail, and Spec as well).            *)
(***************************************************************************)
\* The text is empty or holds nothing but whitespace.
RefBlank(text) == \A i \in 1..Len(text) : SubSeq(text, i, i) \in WhiteSpace

\* The record's room type is a blank text.
BlankRoom(details) ==
    details["room_type"].t = "str" /\ RefBlank(details["room_type"].s)

\* C21: a request whose room type is empty or only whitespace is never
\* submitted to the reservation system and never answered Confirmed or
\* recorded as booked; it ends as Incomplete or as a failure.
C21_BlankRoomNeverSubmitted ==
    \A p \in Runs :
        BlankRoom(run[p].details) =>
            /\ run[p].sent = <<>>
            /\ run[p].reply.kind \in
                   {"", "Incomplete", "SubmissionFailed", "MailError"}

(***************************************************************************)
(* Properties of a failed login (SpecAuth).                                *)
(***************************************************************************)
\* The call made a login request and the answer has come.
LoginAnswered == au_pc \in {"returned", "raised"} /\ au_logins = 1

\* C22: when the login answer is not status 200 or holds no token field, the
\* call raises, returns nothing, and the cache holds exactly what it held
\* when the call was made, forced refresh or not; and a call raises in no
\* other case.
C22_FailedLoginKeepsCache ==
    /\ (LoginAnswered /\ RefLoginToken(au_resp) = 0) =>
           /\ au_pc = "raised"
           /\ au_ret = 0
           /\ cached_token = au_before
    /\ au_pc = "raised" => (LoginAnswered /\ RefLoginToken(au_resp) = 0)

\* A forced refresh over a cached token got status 200 with a body that has
\* no token field, and the old token is still cached.
C22_Witness ==
    /\ au_pc = "raised" /\ au_force /\ au_logins = 1
    /\ au_resp.status = 200 /\ au_resp.is_json /\ au_resp.body = NoBody
    /\ au_before # 0 /\ cached_token = au_before

====
